---------------------------- MODULE Spec2Model ----------------------------
(***************************************************************************)
(* A model of the cryptonote-library watch wallet                          *)
(* (src/cryptonote/classes/wallet/wallet.py) and of the transaction        *)
(* builder it drives (src/cryptonote/crypto/monero_crypto.py).             *)
(*                                                                         *)
(* The node (RPC) is the environment: a chain of blocks that only grows,   *)
(* a set of key images it reports spent, and queries that may raise.       *)
(* The elliptic-curve layer is abstracted to what the wallet observes of   *)
(* it: an output is recognised exactly when the spend key recovered from   *)
(* it is a key of the unique-factor registry.                              *)
(***************************************************************************)
EXTENDS Integers, Sequences, FiniteSets, TLC

(***************************************************************************)
(* Bounds of the model.  Confirmations, MinerLock and RequiredMixins are   *)
(* the protocol parameters of MoneroCrypto (10, 60 and 11), scaled down.   *)
(***************************************************************************)
MaxHeight == 4

Confirmations == 1

MinerLock == 1

RequiredMixins == 2

MaxSends == 2

MaxExternal == 1

MaxOverride == 1

MaxPollFail == 1

MaxTxInputs == 2

MaxTxOutputs == 2

MaxDuplicates == 2

MaxUnrelated == 1

MaxFlowHeight == 5

MaxPieces == 2

MaxExtraBytes == 132

MaxVarInt == 65536
MaxDraw == 8
MaxSignInputs == 3
MaxRingSize == 3
MaxAvailable == 4
MaxRandom == 7

\* The bytes of a key (check_R).
KeyBytes == 32

(***************************************************************************)
(* InputState (crypto.py): Spendable = 0, Transmitted = 1, Spent = 2.      *)
(***************************************************************************)
Spendable == 0

Transmitted == 1

Spent == 2

InputState == {Spendable, Transmitted, Spent}

(***************************************************************************)
(* The ledger the node serves.  Block h holds one transaction <<"tx", h>>  *)
(* and its miner transaction <<"miner", h>>.  The outputs addressed to the *)
(* wallet's keys are Outs: the odd ones are outputs of the                 *)
(* transaction of block 1, the even ones of the miner transaction of       *)
(* block 2, which is time-locked as miner transactions are.                *)
(***************************************************************************)
Outs == {1, 2, 3}

OutTx(o) == IF o % 2 = 1 THEN <<"tx", 1>> ELSE <<"miner", 2>>

OutBlock(o) == OutTx(o)[2]

\* OutputIndex: (transaction hash, position of the output in the transaction).
OutputIndex(o) == <<OutTx(o), (o - 1) \div 2>>

OutAmount(o) == IF o % 2 = 1 THEN 30000 \div o ELSE 25000 * o

\* Transaction.unlock_time: 0 for a transfer, height + lock for a miner transaction.
UnlockTime(tx) == IF tx[1] = "miner" THEN tx[2] + MinerLock ELSE 0

\* The subaddress an output was sent to: output 3 pays subaddress (0, 1).
OutSub(o) == IF o = 3 THEN <<0, 1>> ELSE <<0, 0>>

SubIndices == {<<0, 0>>, <<0, 1>>}

\* Block.hashes + [Block.header.miner_tx_hash], as poll_blocks scans them.
BlockTxs(h) == <<(<<"tx", h>>), (<<"miner", h>>)>>

TxOuts(tx) == {o \in Outs : OutTx(o) = tx}

\* get_o_indexes: every transaction owns OutsPerTx consecutive global indices.
OutsPerTx == 2

GlobalIndex(o) ==
    LET tx == OutTx(o)
        base == (2 * tx[2] + (IF tx[1] = "miner" THEN 1 ELSE 0)) * OutsPerTx
    IN  base + OutputIndex(o)[2]

\* The last global index of the newest transaction of block h
\* (the miner transaction when the block lists no hashes; here it lists one).
NewestTxo(h) == (2 * h) * OutsPerTx + (OutsPerTx - 1)

OldestTxo == 5

VARIABLES
    height,              \* node: get_block_count()
    spent_images,        \* node: outputs whose key image is_key_image_spent reports
    last_block,          \* WatchWallet.last_block
    confirmation_queue,  \* WatchWallet.confirmation_queue (blocks, by height)
    inputs,              \* WatchWallet.inputs, in insertion order
    unique_factors,      \* WatchWallet.unique_factors (registered indices)
    contexts,            \* the contexts prepare_send returned that did not fail
    budget,              \* uses made of the bounded operations
    calls,               \* the prepare_send calls in progress, by thread
    polled,              \* the results of the poll_blocks calls so far, merged
    ret                  \* the call that returned last, and its outcome

vars == <<height, spent_images, last_block, confirmation_queue, inputs,
          unique_factors, contexts, budget, calls, polled, ret>>

nodeVars == <<height, spent_images>>

walletVars == <<last_block, confirmation_queue, inputs, unique_factors>>


(***************************************************************************)
(* Helpers on sequences.                                                   *)
(***************************************************************************)
Min(S) == CHOOSE x \in S : \A y \in S : x <= y

Max2(a, b) == IF a >= b THEN a ELSE b

RECURSIVE SortedSeq(_)
SortedSeq(S) == IF S = {} THEN <<>> ELSE <<Min(S)>> \o SortedSeq(S \ {Min(S)})

\* range(a, b) of Python: a, a + 1, ..., b - 1.
Range(a, b) == [i \in 1..Max2(b - a, 0) |-> a + i - 1]

RECURSIVE Concat(_)
Concat(ss) == IF ss = <<>> THEN <<>> ELSE Head(ss) \o Concat(Tail(ss))

RECURSIVE SumSeq(_)
SumSeq(s) == IF s = <<>> THEN 0 ELSE Head(s) + SumSeq(Tail(s))

Indices(inp) == {inp[i].index : i \in DOMAIN inp}

\* inputs[index] of a map kept in insertion order.
Lookup(inp, o) == inp[CHOOSE i \in DOMAIN inp : inp[i].index = o]

\* A variant that sets the state of every entry, named or not.
SetStateOfAll(inp, S, st) == [i \in DOMAIN inp |-> [inp[i] EXCEPT !.state = st]]

\* inputs[index].state = st for every index of S.
SetState(inp, S, st) ==
    [i \in DOMAIN inp |->
        IF inp[i].index \in S THEN [inp[i] EXCEPT !.state = st] ELSE inp[i]]

(***************************************************************************)
(* Crypto.can_spend_output, with the curve arithmetic abstracted: the      *)
(* spend key recovered from output o is the key of the subaddress it was   *)
(* sent to, and the output is owned when that key is registered.           *)
(***************************************************************************)
OutputInfo(o) ==
    [index |-> o, timelock |-> UnlockTime(OutTx(o)), amount |-> OutAmount(o),
     spend_key |-> OutSub(o), state |-> Spendable]

CanSpendOutput(uf, o) == OutSub(o) \in uf

\* WatchWallet.can_spend: the OutputInfos found in tx, by output position.
CanSpendResult(uf, tx) ==
    LET found == {o \in TxOuts(tx) : CanSpendOutput(uf, o)}
        order == SortedSeq(found)
    IN  [i \in DOMAIN order |-> OutputInfo(order[i])]

\* A merge where the last discovery wins: a known output found again is
\* stored anew.
MergeOverwriting(inp, found) ==
    LET S == {found[k].index : k \in DOMAIN found}
        order == SortedSeq(S \ Indices(inp))
    IN  [i \in DOMAIN inp |->
            IF inp[i].index \in S THEN OutputInfo(inp[i].index) ELSE inp[i]]
        \o [i \in DOMAIN order |-> OutputInfo(order[i])]

\* "for txo in result: if txo in self.inputs: continue; self.inputs[txo] = ..."
RECURSIVE Merge(_, _)
Merge(inp, found) ==
    IF found = <<>> THEN inp
    ELSE IF Head(found).index \in Indices(inp) THEN Merge(inp, Tail(found))
    ELSE Merge(Append(inp, Head(found)), Tail(found))

\* The transactions poll_blocks scans for the blocks it pops, in order.
ScanList(blocks) == Concat([i \in DOMAIN blocks |-> BlockTxs(blocks[i])])

ScanFound(uf, txs) == Concat([i \in DOMAIN txs |-> CanSpendResult(uf, txs[i])])

\* The last call: its operation, the error it raised ("none": it returned),
\* the inputs of the context it returned or was given, what it returned.
NoRet ==
    [op |-> "none", err |-> "none", sel |-> <<>>, success |-> FALSE,
     result |-> <<>>]

\* The threads that may call prepare_send on the one wallet instance.
Threads == {1, 2}

\* A thread that is not in prepare_send.  In a call: pc is the node query
\* the thread is suspended at, req its arguments, h, cur, value and sel its
\* locals (height, the input being added, value, context["inputs"] with
\* context["mixins"]); overlapped tells that another thread ran meanwhile.
IdleCall ==
    [pc |-> "idle", req |-> [amount |-> 0, fee |-> 0, minimum_input |-> 0],
     h |-> 0, cur |-> 0, value |-> 0, sel |-> <<>>, err |-> "none",
     overlapped |-> FALSE]

(***************************************************************************)
(* The node.                                                               *)
(***************************************************************************)
\* A block is mined: the chain height only grows.
MineBlock ==
    /\ height < MaxHeight
    /\ height' = height + 1
    /\ ret' = NoRet
    /\ UNCHANGED <<spent_images, walletVars, contexts, budget, calls, polled>>

\* Another holder of the spend key spends output o: the node reports its
\* key image spent (the situation rebuild_input_states exists for).
ExternalSpend(o) ==
    /\ budget.external < MaxExternal
    /\ OutBlock(o) < height
    /\ UnlockTime(OutTx(o)) < height
    /\ o \notin spent_images
    /\ spent_images' = spent_images \cup {o}
    /\ budget' = [budget EXCEPT !.external = @ + 1]
    /\ ret' = NoRet
    /\ UNCHANGED <<height, walletVars, contexts, calls, polled>>

(***************************************************************************)
(* WatchWallet.poll_blocks.  A node query may raise: at get_block_count    *)
(* ("count"), while fetching the at-th new block ("fetch"), or at the      *)
(* get_transaction following at scanned transactions ("scan").             *)
(***************************************************************************)
\* A variant that fetches the last synced block again.
PollFetchedFromLast == Range(last_block, height)

\* The heights poll_blocks fetches: range(self.last_block + 1, height).
PollFetched == Range(last_block + 1, height)

PollPopCount(queue) == Max2(Len(queue) - Confirmations, 0)

PollOk ==
    LET queue == confirmation_queue \o PollFetched
        n == PollPopCount(queue)
        txs == ScanList(SubSeq(queue, 1, n))
        found == ScanFound(unique_factors, txs)
    IN  /\ confirmation_queue' = SubSeq(queue, n + 1, Len(queue))
        /\ last_block' = Max2(last_block, height - 1)
        /\ inputs' = Merge(inputs, found)
        /\ ret' = [NoRet EXCEPT !.op = "poll_blocks",
                                !.result = [i \in DOMAIN found |-> found[i].index]]
        /\ polled' = polled \cup {found[i].index : i \in DOMAIN found}
        /\ UNCHANGED budget

PollFailCount ==
    /\ ret' = [NoRet EXCEPT !.op = "poll_blocks", !.err = "RPCError"]
    /\ UNCHANGED <<last_block, confirmation_queue, inputs, budget, polled>>

PollFailFetch(at) ==
    /\ at \in 0..(Len(PollFetched) - 1)
    /\ budget.pollfail < MaxPollFail
    /\ confirmation_queue' = confirmation_queue \o SubSeq(PollFetched, 1, at)
    /\ budget' = [budget EXCEPT !.pollfail = @ + 1]
    /\ ret' = [NoRet EXCEPT !.op = "poll_blocks", !.err = "RPCError"]
    /\ UNCHANGED <<last_block, inputs, polled>>

PollFailScan(at) ==
    LET queue == confirmation_queue \o PollFetched
        n == PollPopCount(queue)
        txs == ScanList(SubSeq(queue, 1, n))
        popped == (at \div Len(BlockTxs(0))) + 1
        found == ScanFound(unique_factors, SubSeq(txs, 1, at))
    IN  /\ at \in 0..(Len(txs) - 1)
        /\ budget.pollfail < MaxPollFail
        /\ confirmation_queue' = SubSeq(queue, popped + 1, Len(queue))
        /\ last_block' = Max2(last_block, height - 1)
        /\ inputs' = Merge(inputs, found)
        /\ budget' = [budget EXCEPT !.pollfail = @ + 1]
        /\ ret' = [NoRet EXCEPT !.op = "poll_blocks", !.err = "RPCError"]
        /\ UNCHANGED polled

PollBlocks ==
    /\ \/ PollOk
       \/ PollFailCount
       \/ \E at \in 0..MaxHeight : PollFailFetch(at)
       \/ \E at \in 0..(2 * MaxHeight) : PollFailScan(at)
    /\ UNCHANGED <<nodeVars, unique_factors, contexts, calls>>

(***************************************************************************)
(* WatchWallet.can_spend, called by the owner on a transaction of the      *)
(* chain, and WatchWallet.new_address.                                     *)
(***************************************************************************)
CanSpend(tx) ==
    /\ LET found == CanSpendResult(unique_factors, tx)
       IN  /\ inputs' = Merge(inputs, found)
           /\ ret' = [NoRet EXCEPT !.op = "can_spend",
                                   !.result = [i \in DOMAIN found |-> found[i].index]]
    /\ UNCHANGED <<nodeVars, last_block, confirmation_queue, unique_factors,
                   contexts, budget, calls, polled>>

NewAddress(idx) ==
    /\ unique_factors' = unique_factors \cup {idx}
    /\ ret' = [NoRet EXCEPT !.op = "new_address"]
    /\ UNCHANGED <<nodeVars, last_block, confirmation_queue, inputs, contexts,
                   budget, calls, polled>>

(***************************************************************************)
(* WatchWallet.prepare_send.                                               *)
(***************************************************************************)
\* len(to_var_int(i)) (lib/var_int.py): one byte per started group of 7 bits.
RECURSIVE VarIntLen(_)
VarIntLen(i) == IF i >= 128 THEN 1 + VarIntLen(i \div 128) ELSE 1

\* rpc.get_fee_estimate(): (fee per byte, quantization mask).
FeeEstimate == <<1, 10>>

\* MoneroCrypto.get_minimum_fee.
GetMinimumFee(minimum_fee, n_inputs, n_outputs, mixins, extra, fee) ==
    LET mixlen == SumSeq([i \in DOMAIN mixins |->
                     SumSeq([v \in DOMAIN mixins[i] |-> VarIntLen(mixins[i][v])])])
        length == VarIntLen(n_inputs) + (803 * n_inputs) + mixlen
                  + VarIntLen(n_outputs) + (74 * n_outputs)
                  + VarIntLen(extra) + extra
                  + VarIntLen(fee)
                  + 64 * (IF n_outputs < 4 THEN n_outputs ELSE 4)
                  + 614
    IN  (((length * minimum_fee[1]) + minimum_fee[2] - 1) \div minimum_fee[2])
            * minimum_fee[2]

\* "newest_txo - self.crypto.oldest_txo" for the chain height the call read.
MixinsAvailable(h) == NewestTxo(h - MinerLock) - OldestTxo

\* A variant that appends every drawn index, in the ring already or not.
RECURSIVE FillRingKeepingDuplicates(_, _, _)
FillRingKeepingDuplicates(ring, draw, available) ==
    IF Len(ring) = RequiredMixins THEN [ring |-> ring, draw |-> draw]
    ELSE FillRingKeepingDuplicates(
             Append(ring, OldestTxo + (draw % available)), draw + 1,
             available)

\* The rejection-sampling loop of one input: draw is the next value of
\* int.from_bytes(urandom(mixin_bytes)); a drawn index already in the
\* ring is skipped.  Returns the ring, unsorted, and the next draw.
RECURSIVE FillRing(_, _, _)
FillRing(ring, draw, available) ==
    IF Len(ring) = RequiredMixins THEN [ring |-> ring, draw |-> draw]
    ELSE LET new_mixin == OldestTxo + (draw % available)
         IN  IF \E k \in DOMAIN ring : ring[k] = new_mixin
             THEN FillRing(ring, draw + 1, available)
             ELSE FillRing(Append(ring, new_mixin), draw + 1, available)

SeqRange(s) == {s[i] : i \in DOMAIN s}

\* Variants of the skip test that drop one of its reasons.
SkippedIgnoringState(info, h, minimum_input) ==
    \/ info.timelock >= h
    \/ info.amount < minimum_input

SkippedCountingDust(info, h, minimum_input) ==
    \/ info.state # Spendable
    \/ info.timelock >= h

\* The three reasons the selection loop skips an input.
Skipped(info, h, minimum_input) ==
    \/ info.state # Spendable
    \/ info.timelock >= h
    \/ info.amount < minimum_input

\* The selection loop over the candidate map, from its i-th entry on:
\* value is what is still needed, sel the inputs selected so far with
\* their sorted rings.  The loop breaks as soon as value <= 0.
RECURSIVE SelectFrom(_, _, _, _, _, _, _)
SelectFrom(inp, i, value, sel, draw, h, minimum_input) ==
    IF i > Len(inp) THEN [sel |-> sel, value |-> value]
    ELSE IF Skipped(inp[i], h, minimum_input)
         THEN SelectFrom(inp, i + 1, value, sel, draw, h, minimum_input)
    ELSE LET filled == FillRing(<<GlobalIndex(inp[i].index)>>, draw,
                                MixinsAvailable(h))
             entry == [index |-> inp[i].index,
                       mixins |-> SortedSeq(SeqRange(filled.ring))]
             left == value - inp[i].amount
         IN  IF left <= 0
             THEN [sel |-> Append(sel, entry), value |-> left]
             ELSE SelectFrom(inp, i + 1, left, Append(sel, entry),
                             filled.draw, h, minimum_input)

SelIndices(sel) == {sel[i].index : i \in DOMAIN sel}

\* get_minimum_fee as prepare_send calls it: two outputs, 255 bytes of extra.
MinimumFeeFor(sel, fee) ==
    GetMinimumFee(FeeEstimate, Len(sel), 2,
                  [i \in DOMAIN sel |-> sel[i].mixins], 255, fee)

\* The outcome of prepare_send on the candidate map inp at chain height h:
\* the error it raises ("none": it returns) and context["inputs"] as it
\* stands when the call ends.  fail names the node query that raises:
\* "none", "head" (the queries before the loop), "fee" (get_fee_estimate),
\* or "input": a query made for the at-th selected input.
PrepareOutcome(inp, h, amount, fee, minimum_input, fail, draw) ==
    LET run == SelectFrom(inp, 1, amount + fee, <<>>, draw, h, minimum_input)
    IN  IF fail.kind = "head" \/ h - MinerLock < 0
            THEN [err |-> "RPCError", sel |-> <<>>]
        ELSE IF MixinsAvailable(h) < RequiredMixins
            THEN [err |-> "MixinError", sel |-> <<>>]
        ELSE IF fail.kind = "input" /\ fail.at <= Len(run.sel)
            THEN [err |-> "RPCError", sel |-> SubSeq(run.sel, 1, fail.at)]
        ELSE IF run.value > 0
            THEN [err |-> "BalanceError", sel |-> run.sel]
        ELSE IF fail.kind = "fee"
            THEN [err |-> "RPCError", sel |-> run.sel]
        ELSE IF fee < MinimumFeeFor(run.sel, fee)
            \* raise Exception(FeeError, "Fee is too low."): a plain Exception.
            THEN [err |-> "Exception", sel |-> run.sel]
        ELSE [err |-> "none", sel |-> run.sel]

\* A variant that marks nothing.
MarkNothing(inp, sel) == inp

\* A variant that marks every candidate, selected or not.
MarkEveryCandidate(inp, sel) == SetState(inp, Indices(inp), Transmitted)

\* "Mark the inputs as transmitted", in the map the candidates came from.
MarkTransmitted(inp, sel) == SetState(inp, SelIndices(sel), Transmitted)

\* A variant that marks the inputs as they are selected, before the checks.
MarkedBeforeChecks(inp, out) == MarkTransmitted(inp, out.sel)

\* The candidate map when the call ends: the marking loop comes after
\* every raise, so a call that raises leaves the map as it found it.
Marked(inp, out) ==
    IF out.err = "none" THEN MarkTransmitted(inp, out.sel) ELSE inp

\* The (amount, fee, minimum_input) the caller asks for.
Requests ==
    {[amount |-> 5000, fee |-> 2000, minimum_input |-> 0],
     [amount |-> 35000, fee |-> 2000, minimum_input |-> 0],
     [amount |-> 35000, fee |-> 3000, minimum_input |-> 0],
     [amount |-> 35000, fee |-> 3000, minimum_input |-> 40000],
     [amount |-> 60000, fee |-> 3000, minimum_input |-> 40000]}

\* The values the random source (urandom) starts from.
Draws == {0, 1}

NoFail == [kind |-> "none", at |-> 0]

Fails ==
    {[kind |-> k, at |-> 0] : k \in {"none", "head", "fee"}}
        \cup {[kind |-> "input", at |-> k] : k \in {1}}

\* The wallet's own map (inputs_override is None).
Own == <<"own", 0>>

\* The transactions of the chain the node serves.
ChainTxs == {tx \in {"tx", "miner"} \X (1..MaxHeight) : tx[2] < height}

\* A map the caller passes as inputs_override: the outputs can_spend
\* reports for a transaction the wallet has merged before.  Its OutputInfos
\* are new objects in state Spendable, not the ones the wallet stores.
OverrideSources ==
    {tx \in ChainTxs :
        /\ CanSpendResult(unique_factors, tx) # <<>>
        /\ \A o \in TxOuts(tx) :
              CanSpendOutput(unique_factors, o) => o \in Indices(inputs)}

Candidates(src) ==
    IF src = Own THEN inputs ELSE CanSpendResult(unique_factors, src)

PrepareSend(amount, fee, minimum_input, src, fail, draw) ==
    LET inp == Candidates(src)
        out == PrepareOutcome(inp, height, amount, fee, minimum_input, fail, draw)
    IN  /\ out.err = "none" => Len(contexts) < MaxSends
        /\ out.err = "none" /\ src # Own => budget.override < MaxOverride
        /\ budget' = IF out.err = "none" /\ src # Own
                     THEN [budget EXCEPT !.override = @ + 1] ELSE budget
        /\ inputs' = IF src = Own THEN Marked(inp, out) ELSE inputs
        /\ contexts' =
               IF out.err = "none"
               THEN Append(contexts, [ins |-> SelIndices(out.sel),
                                      own |-> src = Own, fin |-> "inflight"])
               ELSE contexts
        /\ ret' = [NoRet EXCEPT !.op = "prepare_send", !.err = out.err,
                     !.sel = IF out.err = "none"
                             THEN [i \in DOMAIN out.sel |-> out.sel[i].index]
                             ELSE <<>>]
        /\ UNCHANGED <<nodeVars, last_block, confirmation_queue, unique_factors,
                       calls, polled>>

(***************************************************************************)
(* WatchWallet.finalize_send(success, context, serialization), for a       *)
(* context prepare_send returned and the caller has not finalized yet.     *)
(* A context whose send failed is dropped from contexts; one that was      *)
(* published stays.  rpc.publish_transaction raises RPCError               *)
(* when the node rejects the transaction; the node rejects one that spends *)
(* a key image it already knows, and may reject any other (accept).        *)
(***************************************************************************)
PublishAccepted(ins, accept) == accept /\ ins \cap spent_images = {}

\* A variant that leaves the inputs of a failed send as they are marked.
FinalizeStateKeepingFailed(published) == IF published THEN Spent ELSE Transmitted

FinalizeState(published) == IF published THEN Spent ELSE Spendable

FinalizeSend(success, c, accept) ==
    LET ins == contexts[c].ins
        published == success /\ PublishAccepted(ins, accept)
    IN  /\ contexts[c].fin = "inflight"
        /\ spent_images' =
               IF published THEN spent_images \cup ins ELSE spent_images
        /\ inputs' = SetState(inputs, ins, FinalizeState(published))
        /\ contexts' =
               IF published THEN [contexts EXCEPT ![c].fin = "published"]
               ELSE SubSeq(contexts, 1, c - 1)
                        \o SubSeq(contexts, c + 1, Len(contexts))
        /\ ret' = [NoRet EXCEPT !.op = "finalize_send", !.sel = SortedSeq(ins),
                     !.success = success, !.result = published]
        /\ UNCHANGED <<height, last_block, confirmation_queue, unique_factors,
                       budget, calls, polled>>

(***************************************************************************)
(* WatchWallet.rebuild_input_states(key_images), given the key images of   *)
(* a set S of the wallet's outputs (Wallet.generate_key_images).           *)
(***************************************************************************)
\* A variant that takes every key image given for spent.
ReportedSpentAll(S) == S

\* The outputs of S whose key image rpc.is_key_image_spent reports spent.
ReportedSpent(S) == S \cap spent_images

RebuildInputStates(S) ==
    /\ inputs' = SetState(inputs, ReportedSpent(S), Spent)
    /\ ret' = [NoRet EXCEPT !.op = "rebuild_input_states"]
    /\ UNCHANGED <<nodeVars, last_block, confirmation_queue, unique_factors,
                   contexts, budget, calls, polled>>

(***************************************************************************)
(* The wallet as one caller drives it.  Init is WatchWallet(crypto, rpc,   *)
(* view key, spend key, 0) on a node of height 1: load_state sets          *)
(* last_block = 0 and its poll_blocks finds no new block.                  *)
(***************************************************************************)
Init ==
    /\ height = 1
    /\ spent_images = {}
    /\ last_block = 0
    /\ confirmation_queue = <<>>
    /\ inputs = <<>>
    /\ unique_factors = {<<0, 0>>}
    /\ contexts = <<>>
    /\ budget = [external |-> 0, pollfail |-> 0, override |-> 0]
    /\ calls = [t \in Threads |-> IdleCall]
    /\ polled = {}
    /\ ret = NoRet

\* poll_blocks against a node that answers, or that raises at once.
PollBlocksNoFail ==
    /\ PollOk \/ PollFailCount
    /\ UNCHANGED <<nodeVars, unique_factors, contexts, calls>>

Next ==
    \/ MineBlock
    \/ \E o \in Outs : ExternalSpend(o)
    \/ PollBlocksNoFail
    \/ \E tx \in ChainTxs : CanSpend(tx)
    \/ \E r \in Requests, draw \in Draws :
          PrepareSend(r.amount, r.fee, r.minimum_input, Own, NoFail, draw)
    \/ \E fail \in Fails \ {NoFail} :
          PrepareSend(35000, 3000, 0, Own, fail, 0)
    \/ \E r \in Requests, src \in OverrideSources :
          PrepareSend(r.amount, r.fee, r.minimum_input, src, NoFail, 0)
    \/ \E success \in BOOLEAN, c \in DOMAIN contexts, accept \in BOOLEAN :
          FinalizeSend(success, c, accept)
    \/ \E S \in SUBSET Indices(inputs) : RebuildInputStates(S)

Spec == Init /\ [][Next]_vars

(***************************************************************************)
(* The scanning side alone, against a node whose queries may raise at any  *)
(* point of poll_blocks.                                                   *)
(***************************************************************************)
NextPoll ==
    \/ MineBlock
    \/ PollBlocks
    \/ \E tx \in ChainTxs : CanSpend(tx)
    \/ \E idx \in SubIndices : NewAddress(idx)

SpecPoll == Init /\ [][NextPoll]_vars

(***************************************************************************)
(* prepare_send called from several threads on one wallet instance.  A     *)
(* thread may be suspended at each node query of the call; what the call   *)
(* does between two queries is one step.  The owner polls between sends,   *)
(* not during one.                                                         *)
(***************************************************************************)
InCall(t) == calls[t].pc \notin {"idle", "done"}

\* Thread t moves to call state new; the calls in progress meanwhile, and
\* t's own if there is one, have overlapped with another thread.
Stepped(t, new) ==
    [u \in Threads |->
        IF u = t
        THEN [new EXCEPT !.overlapped =
                  calls[t].overlapped \/ \E v \in Threads \ {t} : InCall(v)]
        ELSE IF InCall(u) THEN [calls[u] EXCEPT !.overlapped = TRUE]
        ELSE calls[u]]

\* The call of thread t ends raising err.
Raised(t, err) ==
    /\ calls' = Stepped(t, [calls[t] EXCEPT !.pc = "done", !.err = err])
    /\ ret' = [NoRet EXCEPT !.op = "prepare_send", !.err = err]
    /\ UNCHANGED <<inputs, contexts>>

\* The first entry of the map, from the i-th on, the loop does not skip
\* (0: none), read as the map is now.
NextEligible(i, h, minimum_input) ==
    LET J == {j \in i..Len(inputs) : ~Skipped(inputs[j], h, minimum_input)}
    IN  IF J = {} THEN 0 ELSE Min(J)

\* The loop runs on from entry i: to the queries for the next input it
\* adds or, the map exhausted with value > 0, to BalanceError.
LoopFrom(t, c, i) ==
    LET j == NextEligible(i, c.h, c.req.minimum_input)
    IN  IF j = 0 THEN Raised(t, "BalanceError")
        ELSE /\ calls' = Stepped(t, [c EXCEPT !.pc = "input", !.cur = j])
             /\ ret' = NoRet
             /\ UNCHANGED <<inputs, contexts>>

\* prepare_send is entered; the thread is suspended at get_block_count.
ConcCall(t, r) ==
    /\ calls[t].pc = "idle"
    /\ calls' = Stepped(t, [calls[t] EXCEPT !.pc = "count", !.req = r,
                                            !.value = r.amount + r.fee])
    /\ ret' = NoRet
    /\ UNCHANGED <<nodeVars, walletVars, contexts, budget, polled>>

\* get_block_count answers; suspended at the queries for the newest TXO.
ConcCount(t) ==
    /\ calls[t].pc = "count"
    /\ calls' = Stepped(t, [calls[t] EXCEPT !.pc = "head", !.h = height])
    /\ ret' = NoRet
    /\ UNCHANGED <<nodeVars, walletVars, contexts, budget, polled>>

\* The newest TXO is known: the mixin check, then the loop up to the
\* queries for the first input it adds.
ConcHead(t) ==
    LET c == calls[t]
    IN  /\ c.pc = "head"
        /\ IF c.h - MinerLock < 0 THEN Raised(t, "RPCError")
           ELSE IF MixinsAvailable(c.h) < RequiredMixins
                THEN Raised(t, "MixinError")
           ELSE LoopFrom(t, c, 1)
        /\ UNCHANGED <<nodeVars, last_block, confirmation_queue,
                       unique_factors, budget, polled>>

\* The queries for input cur answer: its ring is filled, its amount is
\* subtracted; the loop breaks for get_fee_estimate or runs on.
ConcInput(t) ==
    LET c == calls[t]
        info == inputs[c.cur]
        filled == FillRing(<<GlobalIndex(info.index)>>, 0, MixinsAvailable(c.h))
        entry == [index |-> info.index,
                  mixins |-> SortedSeq(SeqRange(filled.ring))]
        d == [c EXCEPT !.sel = Append(c.sel, entry),
                       !.value = c.value - info.amount]
    IN  /\ c.pc = "input"
        /\ IF d.value <= 0
           THEN /\ calls' = Stepped(t, [d EXCEPT !.pc = "fee"])
                /\ ret' = NoRet
                /\ UNCHANGED <<inputs, contexts>>
           ELSE LoopFrom(t, d, c.cur + 1)
        /\ UNCHANGED <<nodeVars, last_block, confirmation_queue,
                       unique_factors, budget, polled>>

\* get_fee_estimate answers: the fee check, then the marking and the return.
ConcFee(t) ==
    LET c == calls[t]
    IN  /\ c.pc = "fee"
        /\ IF c.req.fee < MinimumFeeFor(c.sel, c.req.fee)
           THEN Raised(t, "Exception")
           ELSE /\ inputs' = MarkTransmitted(inputs, c.sel)
                /\ contexts' = Append(contexts,
                       [ins |-> SelIndices(c.sel), own |-> TRUE,
                        fin |-> "inflight"])
                /\ calls' = Stepped(t, [c EXCEPT !.pc = "done"])
                /\ ret' = [NoRet EXCEPT !.op = "prepare_send",
                             !.sel = [i \in DOMAIN c.sel |-> c.sel[i].index]]
        /\ UNCHANGED <<nodeVars, last_block, confirmation_queue,
                       unique_factors, budget, polled>>

\* poll_blocks between sends.
PollBetweenCalls ==
    /\ \A t \in Threads : ~InCall(t)
    /\ PollOk
    /\ UNCHANGED <<nodeVars, unique_factors, contexts, calls>>

NextConc ==
    \/ MineBlock
    \/ PollBetweenCalls
    \/ \E t \in Threads, r \in Requests : ConcCall(t, r)
    \/ \E t \in Threads : ConcCount(t)
    \/ \E t \in Threads : ConcHead(t)
    \/ \E t \in Threads : ConcInput(t)
    \/ \E t \in Threads : ConcFee(t)

SpecConc == Init /\ [][NextConc]_vars

(***************************************************************************)
(* Wallet.sign on a context: MoneroCrypto.spendable_transaction builds the *)
(* transaction from the amounts of the inputs, the outputs asked for and   *)
(* the fee, then MoneroCrypto.sign signs it.  ret holds the context, then  *)
(* the outcome.                                                            *)
(***************************************************************************)
SeqsUpTo(S, n) == UNION {[1..k -> S] : k \in 1..n}

\* The contexts handed to sign: input amounts, output amounts, fee.
SignContexts ==
    [op : {"context"},
     inputs : SeqsUpTo({10000, 30000}, MaxTxInputs),
     outputs : SeqsUpTo({5000, 23000, 28000}, MaxTxOutputs),
     fee : {2000, 3000},
     err : {"none"}, output_amounts : {<<>>}, signed : {FALSE}]

\* A variant that leaves the fee out of the account.
AmountWithoutFee(input_amounts, output_amounts, fee) ==
    SumSeq(input_amounts) - SumSeq(output_amounts)

\* "amount": what the inputs leave once the outputs and the fee are paid.
TransactionAmount(input_amounts, output_amounts, fee) ==
    SumSeq(input_amounts) - SumSeq(output_amounts) - fee

\* The outputs of the transaction before the shuffle (<<>>: it raises).
WithChange(input_amounts, output_amounts, fee) ==
    LET amount == TransactionAmount(input_amounts, output_amounts, fee)
    IN  IF amount < 0 THEN <<>>
        ELSE IF amount = 0
             THEN IF Len(output_amounts) < 2 THEN <<>> ELSE output_amounts
        ELSE Append(output_amounts, amount)

\* shuffle(outputs), by the permutation p it draws.
Shuffled(outs, p) == [i \in DOMAIN outs |-> outs[p[i]]]

\* spendable_transaction: the error it raises and the output amounts of
\* the transaction it returns.
SpendableTransaction(input_amounts, output_amounts, fee, p) ==
    LET outs == WithChange(input_amounts, output_amounts, fee)
    IN  IF outs = <<>> THEN [err |-> "Exception", output_amounts |-> <<>>]
        ELSE [err |-> "none", output_amounts |-> Shuffled(outs, p)]

\* Wallet.sign(context): crypto.sign runs only on a transaction
\* spendable_transaction returned.
Sign(p) ==
    LET tx == SpendableTransaction(ret.inputs, ret.outputs, ret.fee, p)
    IN  /\ ret.op = "context"
        /\ DOMAIN p = DOMAIN WithChange(ret.inputs, ret.outputs, ret.fee)
        /\ ret' = [ret EXCEPT !.op = "sign", !.err = tx.err,
                              !.output_amounts = tx.output_amounts,
                              !.signed = (tx.err = "none")]
        /\ UNCHANGED <<nodeVars, walletVars, contexts, budget, calls, polled>>

InitTx ==
    /\ height = 1
    /\ spent_images = {}
    /\ last_block = 0
    /\ confirmation_queue = <<>>
    /\ inputs = <<>>
    /\ unique_factors = {<<0, 0>>}
    /\ contexts = <<>>
    /\ budget = [external |-> 0, pollfail |-> 0, override |-> 0]
    /\ calls = [t \in Threads |-> IdleCall]
    /\ polled = {}
    /\ ret \in SignContexts

NextTx == \E n \in 0..(MaxTxOutputs + 1) : \E p \in Permutations(1..n) : Sign(p)

SpecTx == InitTx /\ [][NextTx]_vars

(***************************************************************************)
(* Properties.                                                             *)
(***************************************************************************)
\* The transitions the state of an output may take in one step.
Advance ==
    {<<Spendable, Transmitted>>, <<Transmitted, Spent>>,
     <<Transmitted, Spendable>>}

\* Entry i of the input map keeps everything but its state.
SameData(i) == inputs'[i] = [inputs[i] EXCEPT !.state = inputs'[i].state]

\* The input map only grows, at its end.
MapGrows ==
    /\ Len(inputs') >= Len(inputs)
    /\ \A i \in DOMAIN inputs : SameData(i)

\* C1 (as stated): in every step the state of a known output stays or
\* moves Spendable->Transmitted, Transmitted->Spent or
\* Transmitted->Spendable.
C1_OnlyAdvances ==
    [][/\ MapGrows
       /\ \A i \in DOMAIN inputs :
             inputs'[i].state # inputs[i].state =>
                 <<inputs[i].state, inputs'[i].state>> \in Advance]_vars

\* C1 (amended): the state of a known output changes only as its
\* operation sets it.  prepare_send moves the outputs it selects from
\* Spendable to Transmitted; finalize_send sets every output of its
\* context to Spent when the transaction was published and to Spendable
\* when it was not, whatever state it was in; rebuild_input_states sets an
\* output the node reports spent to Spent, whatever state it was in;
\* poll_blocks and can_spend change the state of no known output.
C1_StateSetByOperation ==
    [][/\ MapGrows
       /\ \A i \in DOMAIN inputs :
             LET o == inputs[i].index
                 a == inputs[i].state
                 b == inputs'[i].state
             IN  a # b =>
                   \/ /\ ret'.op = "prepare_send" /\ ret'.err = "none"
                      /\ o \in SeqRange(ret'.sel)
                      /\ a = Spendable /\ b = Transmitted
                   \/ /\ ret'.op = "finalize_send"
                      /\ o \in SeqRange(ret'.sel)
                      /\ b = IF ret'.result THEN Spent ELSE Spendable
                   \/ /\ ret'.op = "rebuild_input_states"
                      /\ o \in spent_images
                      /\ b = Spent]_vars

\* rebuild_input_states has moved an output no send ever selected, and so
\* Spendable until then, to Spent.
C1_RebuiltFromSpendable ==
    /\ ret.op = "rebuild_input_states"
    /\ budget.override = 0
    /\ contexts = <<>>
    /\ \E i \in DOMAIN inputs : inputs[i].state = Spent


\* The contexts the caller holds pairwise share no output.
NoSharedOutput ==
    \A c1, c2 \in DOMAIN contexts :
        c1 # c2 => contexts[c1].ins \cap contexts[c2].ins = {}

\* What prepare_send would select from the candidates of src are outputs
\* that are Spendable in the wallet's map, unlocked and not below
\* minimum_input.
SelectsEligible(src) ==
    \A r \in Requests, draw \in Draws :
        LET out == PrepareOutcome(Candidates(src), height, r.amount, r.fee,
                                  r.minimum_input, NoFail, draw)
        IN  \A k \in DOMAIN out.sel :
                LET info == Lookup(inputs, out.sel[k].index)
                IN  /\ info.state = Spendable
                    /\ info.timelock < height
                    /\ info.amount >= r.minimum_input

\* C2 (as stated): whether the candidates are the wallet's own map or a
\* map the caller passes, no output is in two contexts unless the first
\* one failed in between (a failed context is dropped from contexts), and
\* no selected output is Transmitted or Spent in the wallet, time-locked or
\* below minimum_input.
C2_NoDoubleSelection ==
    /\ NoSharedOutput
    /\ \A src \in {Own} \cup OverrideSources : SelectsEligible(src)

\* C2 (amended): in a run whose prepare_send calls all take their
\* candidates from the wallet's own map, no output is in two contexts unless
\* the first one failed in between; and a prepare_send on the wallet's own
\* map never selects an output that is Transmitted or Spent, time-locked or
\* below minimum_input.
C2_NoDoubleSelectionOwnMap ==
    /\ budget.override = 0 => NoSharedOutput
    /\ SelectsEligible(Own)

\* Two sends on the wallet's own map are in flight at once.
C2_TwoOwnContexts ==
    /\ budget.override = 0
    /\ Len(contexts) = MaxSends
    /\ \A c \in DOMAIN contexts : contexts[c].own /\ contexts[c].fin = "inflight"

\* C3: a prepare_send that raises (MixinError, BalanceError, the fee
\* error, or an error of a node query) leaves the input map and every state
\* in it, the confirmation queue, last_block and the unique-factor
\* registry as they were.
C3_FailedPrepareSendChangesNothing ==
    [][(ret'.op = "prepare_send" /\ ret'.err # "none") =>
           UNCHANGED <<last_block, confirmation_queue, inputs,
                       unique_factors>>]_vars

\* prepare_send raised after it had selected an input: the fee was too low.
C3_RaisedAfterSelecting ==
    /\ ret.op = "prepare_send"
    /\ ret.err = "Exception"
    /\ \E i \in DOMAIN inputs : inputs[i].state = Spendable

C5_FinalizeSendOutcome ==
    [][ret'.op = "finalize_send" =>
           LET S == SeqRange(ret'.sel)
               accepted == spent_images' # spent_images
           IN  /\ ret'.err = "none"
               /\ accepted => ret'.success /\ spent_images' = spent_images \cup S
               /\ ret'.result = (ret'.success /\ accepted)
               /\ S # {}
               /\ S \subseteq Indices(inputs')
               /\ \A i \in DOMAIN inputs' :
                     inputs'[i].index \in S =>
                         inputs'[i].state =
                             IF ret'.result THEN Spent ELSE Spendable]_vars

\* finalize_send was called with success true, the node rejected the
\* publish, and the inputs of the context are Spendable again.
C5_PublishRejected ==
    /\ ret.op = "finalize_send"
    /\ ret.success
    /\ ~ret.result
    /\ \A k \in DOMAIN ret.sel : Lookup(inputs, ret.sel[k]).state = Spendable

\* C7 (as stated): with enough mixins and enough balance, a fee below the
\* minimum fee of the selected inputs makes prepare_send raise FeeError.
C7_FeeTooLowRaisesFeeError ==
    \A r \in Requests, draw \in Draws :
        LET run == SelectFrom(inputs, 1, r.amount + r.fee, <<>>, draw, height,
                              r.minimum_input)
            out == PrepareOutcome(inputs, height, r.amount, r.fee,
                                  r.minimum_input, NoFail, draw)
        IN  (/\ height - MinerLock >= 0
             /\ MixinsAvailable(height) >= RequiredMixins
             /\ run.value <= 0
             /\ r.fee < MinimumFeeFor(run.sel, r.fee)) => out.err = "FeeError"

\* The amounts of the candidates prepare_send may spend.
EligibleSum(inp, h, minimum_input) ==
    SumSeq([i \in DOMAIN inp |->
               IF /\ inp[i].state = Spendable
                  /\ inp[i].timelock < h
                  /\ inp[i].amount >= minimum_input
               THEN inp[i].amount ELSE 0])

\* Requests on both sides of the balance of one and of two outputs.
BalanceRequests ==
    Requests \cup
        {[amount |-> a, fee |-> 2000, minimum_input |-> m] :
            a \in {28000, 28001, 48000, 78000, 78001}, m \in {0, 40000}}

\* C8: with enough mixins available and a node that answers, prepare_send
\* raises BalanceError exactly when the amounts of the candidates that are
\* Spendable, unlocked (timelock < height) and not below minimum_input sum
\* to less than amount + fee.
C8_BalanceErrorIffShort ==
    \A r \in BalanceRequests, draw \in Draws :
        LET out == PrepareOutcome(inputs, height, r.amount, r.fee,
                                  r.minimum_input, NoFail, draw)
        IN  (/\ height - MinerLock >= 0
             /\ MixinsAvailable(height) >= RequiredMixins) =>
                (out.err = "BalanceError"
                    <=> EligibleSum(inputs, height, r.minimum_input)
                            < r.amount + r.fee)

\* prepare_send raised BalanceError although the Spendable, unlocked
\* outputs of the wallet cover the request: one of them is below
\* minimum_input.
C8_DustNotCounted ==
    /\ ret.op = "prepare_send"
    /\ ret.err = "BalanceError"
    /\ EligibleSum(inputs, height, 0) >= 63000
    /\ EligibleSum(inputs, height, 40000) < 63000


\* The heights h with lo < h < hi, ascending, each once.
Between(lo, hi) == [i \in 1..Max2(hi - 1 - lo, 0) |-> lo + i]

\* C10: last_block never decreases; a poll_blocks that returns sets
\* last_block to H - 1 when the node reports H > last_block and has
\* appended to the queue the heights between the old last_block and H,
\* ascending and each once, before popping from its front; and in a run
\* where no poll_blocks was cut short by a node error the queue it leaves
\* holds consecutive heights that end at last_block, so the heights ever
\* enqueued have no gap and no duplicate.
C10_PollEnqueuesEachHeightOnce ==
    [][/\ last_block' >= last_block
       /\ (ret'.op = "poll_blocks" /\ ret'.err = "none") =>
              LET all == confirmation_queue \o Between(last_block, height)
                  left == confirmation_queue'
              IN  /\ height > last_block => last_block' = height - 1
                  /\ \E n \in 0..Len(all) : left = SubSeq(all, n + 1, Len(all))
                  /\ budget.pollfail = 0 =>
                         left = Between(last_block' - Len(left),
                                        last_block' + 1)]_vars

\* A poll_blocks that returned had several new heights to enqueue at once:
\* it found the outputs of blocks 1 and 2 in one call.
C10_SeveralHeightsAtOnce ==
    /\ ret.op = "poll_blocks"
    /\ ret.err = "none"
    /\ budget.pollfail = 0
    /\ {1, 2} \subseteq SeqRange(ret.result)
    /\ last_block = height - 1


\* C9: when two prepare_send calls on one wallet have both returned a
\* context and the two contexts hold a common output, the calls were
\* interleaved: each ran while the other was suspended at a node query.
\* (That such a state is reached is C9_OneOutputInTwoContexts.)
C9_SharingOnlyWhenInterleaved ==
    \A t1, t2 \in Threads :
        (/\ t1 # t2
         /\ calls[t1].pc = "done" /\ calls[t1].err = "none"
         /\ calls[t2].pc = "done" /\ calls[t2].err = "none"
         /\ SelIndices(calls[t1].sel) \cap SelIndices(calls[t2].sel) # {})
            => calls[t1].overlapped /\ calls[t2].overlapped

\* One output is in two contexts that are both in flight, and is
\* Transmitted once in the wallet's map.
C9_OneOutputInTwoContexts ==
    \E c1, c2 \in DOMAIN contexts :
        /\ c1 # c2
        /\ contexts[c1].fin = "inflight" /\ contexts[c2].fin = "inflight"
        /\ \E o \in contexts[c1].ins \cap contexts[c2].ins :
              Lookup(inputs, o).state = Transmitted
        /\ \A t \in Threads : calls[t].pc = "done" /\ calls[t].err = "none"


\* C6: a transaction spendable_transaction returns has
\* sum(input amounts) = sum(output amounts, the change output included)
\* + fee; and when the inputs do not cover the outputs asked for plus the
\* fee, it raises, returns no transaction, and nothing is signed.
C6_AmountsConserved ==
    ret.op = "sign" =>
        /\ ret.err = "none" =>
               /\ SumSeq(ret.inputs) = SumSeq(ret.output_amounts) + ret.fee
               /\ Len(ret.output_amounts) >= 2
               /\ ret.signed
        /\ SumSeq(ret.inputs) < SumSeq(ret.outputs) + ret.fee =>
               /\ ret.err # "none"
               /\ ret.output_amounts = <<>>
               /\ ~ret.signed

\* A transaction was returned with a change output appended and shuffled
\* in before the last position.
C6_ChangeAppended ==
    /\ ret.op = "sign"
    /\ ret.err = "none"
    /\ Len(ret.output_amounts) = Len(ret.outputs) + 1
    /\ ret.output_amounts[1] = SumSeq(ret.inputs) - SumSeq(ret.outputs) - ret.fee

\* C11: a poll_blocks that returns leaves at most Confirmations blocks in
\* the queue, the most recent ones up to last_block; the blocks it scanned
\* are the ones it popped, each at least Confirmations below last_block,
\* and they are the heights between the front of the queue before the call
\* and the front after it, each once: a polled block that deep is scanned
\* exactly once.
C11_ScannedOnceWhenConfirmed ==
    [][(ret'.op = "poll_blocks" /\ ret'.err = "none") =>
          LET all == confirmation_queue \o Between(last_block, height)
              left == confirmation_queue'
              scanned == SubSeq(all, 1, Len(all) - Len(left))
          IN  /\ Len(left) <= Confirmations
              /\ left = Between(last_block' - Len(left), last_block' + 1)
              /\ \A i \in DOMAIN scanned :
                    last_block' - scanned[i] >= Confirmations
              /\ scanned = Between(last_block - Len(confirmation_queue),
                                   last_block' - Len(left) + 1)
              /\ inputs' = Merge(inputs, ScanFound(unique_factors,
                                                   ScanList(scanned)))]_vars

\* C12: can_spend and poll_blocks, whether they return or raise, keep every
\* entry of the wallet's input map as it was, state included, also when
\* they find again an output the map already holds; they only add entries.
C12_ScanKeepsKnownEntries ==
    [][ret'.op \in {"can_spend", "poll_blocks"} =>
          /\ Len(inputs') >= Len(inputs)
          /\ SubSeq(inputs', 1, Len(inputs)) = inputs
          /\ Indices(inputs') \cap
                 {inputs'[j].index : j \in (Len(inputs) + 1)..Len(inputs')}
                 \cap Indices(inputs) = {}]_vars

\* can_spend has scanned again the transaction of an output whose state had
\* advanced, and found the output; its state is as it was.
C12_RescannedAdvancedOutput ==
    /\ ret.op = "can_spend"
    /\ \E i \in DOMAIN inputs :
          /\ inputs[i].index \in SeqRange(ret.result)
          /\ inputs[i].state \in {Transmitted, Spent}

\* C13: a poll_blocks that returns has returned the owned outputs of the
\* blocks it popped in this call and no other: every output the call added
\* to the input map is among them, and none was returned by an earlier
\* call; hence a caller who merges the results of the calls holds the
\* wallet's input map after each call when they held it before.
C13_PollReturnsTheNewOutputs ==
    [][ret'.op = "poll_blocks" =>
          LET all == confirmation_queue \o Between(last_block, height)
              popped == SubSeq(all, 1, Len(all) - Len(confirmation_queue'))
              returned == SeqRange(ret'.result)
          IN  /\ ret'.err = "none" =>
                    /\ returned = {o \in Outs :
                                      /\ OutBlock(o) \in SeqRange(popped)
                                      /\ OutSub(o) \in unique_factors}
                    /\ Indices(inputs') \ Indices(inputs) \subseteq returned
                    /\ returned \cap polled = {}
                    /\ polled' = polled \cup returned
              /\ Indices(inputs) = polled => Indices(inputs') = polled']_vars

(***************************************************************************)
(* WatchWallet.save_state and the construction of a WatchWallet from the   *)
(* saved state (WatchWallet.__init__, load_state).                         *)
(***************************************************************************)
\* OutputInfo.to_json: the hash and the position of the index, the fields.
OutputToJson(info) ==
    [hash |-> OutputIndex(info.index)[1], index |-> OutputIndex(info.index)[2],
     timelock |-> info.timelock, amount |-> info.amount,
     spend_key |-> info.spend_key, state |-> info.state]

\* MoneroOutputInfo.from_json: the constructor, which sets state to
\* InputState(0), then "result.state = InputState(output["state"])".
OutputFromJson(json) ==
    [index |-> CHOOSE o \in Outs : OutputIndex(o) = <<json.hash, json.index>>,
     timelock |-> json.timelock, amount |-> json.amount,
     spend_key |-> json.spend_key, state |-> json.state]

\* WatchWallet.save_state: last_block, the inputs, the unique factors.  The
\* confirmation queue is not part of it.
SaveState ==
    [last_block |-> last_block,
     inputs |-> [i \in DOMAIN inputs |-> OutputToJson(inputs[i])],
     unique_factors |-> unique_factors]

\* load_state steps back from the saved last_block by the literal 10, the
\* confirmations of MoneroCrypto.
Rewind == Confirmations

\* poll_blocks, without a failing query, of a wallet at (lb, queue, inp, uf)
\* against a node at height h.
PolledFrom(lb, queue, inp, uf, h) ==
    LET all == queue \o Range(lb + 1, h)
        n == PollPopCount(all)
        found == ScanFound(uf, ScanList(SubSeq(all, 1, n)))
    IN  [last_block |-> Max2(lb, h - 1),
         confirmation_queue |-> SubSeq(all, n + 1, Len(all)),
         inputs |-> Merge(inp, found), unique_factors |-> uf, err |-> "none"]

\* WatchWallet(crypto, rpc, keys, state) for a saved state: the wallet it
\* constructs, or err when its poll_blocks asks the node for a block below
\* the genesis block.
LoadState(state, h) ==
    LET lb == state.last_block - Rewind
        inp == [i \in DOMAIN state.inputs |-> OutputFromJson(state.inputs[i])]
        uf == {<<0, 0>>} \cup state.unique_factors
    IN  IF lb = -1
        THEN [last_block |-> lb, confirmation_queue |-> <<>>, inputs |-> inp,
              unique_factors |-> uf, err |-> "none"]
        ELSE IF lb < -1
        THEN [last_block |-> lb, confirmation_queue |-> <<>>, inputs |-> inp,
              unique_factors |-> uf, err |-> "RPCError"]
        ELSE PolledFrom(lb, <<>>, inp, uf, h)

\* The owner saves the wallet and goes on with the wallet constructed from
\* the saved state; when the construction raises they keep the old one.
Reload ==
    LET new == LoadState(SaveState, height)
    IN  /\ ret' = [NoRet EXCEPT !.op = "load_state", !.err = new.err]
        /\ IF new.err = "none"
           THEN /\ last_block' = new.last_block
                /\ confirmation_queue' = new.confirmation_queue
                /\ inputs' = new.inputs
                /\ unique_factors' = new.unique_factors
           ELSE UNCHANGED walletVars
        /\ UNCHANGED <<nodeVars, contexts, budget, calls, polled>>

NextLoad ==
    \/ MineBlock
    \/ PollBlocksNoFail
    \/ \E idx \in SubIndices : NewAddress(idx)
    \/ \E draw \in Draws : PrepareSend(5000, 2000, 0, Own, NoFail, draw)
    \/ \E success \in BOOLEAN, c \in DOMAIN contexts, accept \in BOOLEAN :
          FinalizeSend(success, c, accept)
    \/ Reload

SpecLoad == Init /\ [][NextLoad]_vars

\* C14: a WatchWallet constructed from the save_state() of a wallet that
\* has polled the chain up to its tip has the last_block, the confirmation
\* queue, the input map with every state, and the unique-factor registry of
\* the saved wallet, whatever state the saved wallet is in.
C14_ReloadReproducesWallet ==
    [][(ret'.op = "load_state" /\ last_block = height - 1) =>
          /\ ret'.err = "none"
          /\ UNCHANGED walletVars]_vars

(***************************************************************************)
(* A wallet rebuilt from the chain (rebuild_test): WatchWallet(crypto,     *)
(* rpc, keys, start), poll_blocks, then rebuild_input_states with the key  *)
(* images Wallet.generate_key_images gives for all its inputs.             *)
(***************************************************************************)
\* Wallet.generate_key_images(save_state()["inputs"]): one image for every
\* input of the map, under its hash and index.
GenerateKeyImages(inp) == Indices(inp)

\* The fresh wallet, started where Init starts the long-lived one.
FreshWallet == PolledFrom(0, <<>>, <<>>, {<<0, 0>>}, height)

RebuiltInputs ==
    SetState(FreshWallet.inputs,
             ReportedSpent(GenerateKeyImages(FreshWallet.inputs)), Spent)

\* The long-lived wallet next to its node: one caller polls, sends,
\* finalizes and rebuilds; another holder of the keys may spend an output.
NextRebuild ==
    \/ MineBlock
    \/ \E o \in Outs : ExternalSpend(o)
    \/ PollBlocksNoFail
    \/ \E r \in Requests, draw \in Draws :
          PrepareSend(r.amount, r.fee, r.minimum_input, Own, NoFail, draw)
    \/ \E success \in BOOLEAN, c \in DOMAIN contexts, accept \in BOOLEAN :
          FinalizeSend(success, c, accept)
    \/ \E S \in SUBSET Indices(inputs) : RebuildInputStates(S)

SpecRebuild == Init /\ [][NextRebuild]_vars

\* The long-lived wallet has polled to the tip, has finalized every send it
\* prepared, and every spend of its outputs is one of its own sends.
AllSendsFinalized ==
    /\ last_block = height - 1
    /\ budget.external = 0
    /\ \A c \in DOMAIN contexts : contexts[c].fin # "inflight"

\* The input maps agree as maps: the same entries, whatever the order.
SameMap(a, b) == Len(a) = Len(b) /\ SeqRange(a) = SeqRange(b)

FreshMatchesLongLived ==
    AllSendsFinalized =>
        /\ FreshWallet.last_block = last_block
        /\ FreshWallet.confirmation_queue = confirmation_queue
        /\ SameMap(RebuiltInputs, inputs)

Wallets == {"A", "B"}

ScanIndices == {<<0, 0>>, <<0, 1>>, <<0, 2>>}

\* Scalars: the private view key of w ("a"), the bytes of the public view
\* key of w read as a scalar ("A"), the secret r of the transaction ("r"),
\* the secret of an unrelated R ("x"), none ("-").
Scalar(kind, w) == [kind |-> kind, w |-> w]

NoScalar == Scalar("-", "-")

\* ed.B, the base point.
BasePoint == [sc |-> {}, base |-> [kind |-> "G", w |-> "-", view |-> NoScalar,
                                   idx |-> <<0, 0>>]]

\* ed.scalarmult(point, scalar).
ScalarMult(point, scalar) == [point EXCEPT !.sc = @ \cup {scalar}]

\* ed.public_from_secret.
PublicFromSecret(secret) == ScalarMult(BasePoint, secret)

PrivateViewKey(w) == Scalar("a", w)

\* WatchWallet.public_view_key, and its bytes read as a scalar.
PublicViewKey(w) == PublicFromSecret(PrivateViewKey(w))

PublicViewKeyBytes(w) == Scalar("A", w)

PublicSpendKey(w) ==
    [sc |-> {}, base |-> [kind |-> "B", w |-> w, view |-> NoScalar,
                          idx |-> <<0, 0>>]]

\* ed.generate_subaddress_public_spend_key: B + Hs("SubAddr" || view key
\* || index) G, a point of its own for every view key and index.
GenerateSubaddressPublicSpendKey(view_key, spend_key, subaddress) ==
    IF subaddress = <<0, 0>> THEN spend_key
    ELSE [sc |-> {}, base |-> [kind |-> "D", w |-> spend_key.base.w,
                               view |-> view_key, idx |-> subaddress]]

\* ed.generate_subaddress_public_view_key.
GenerateSubaddressPublicViewKey(view_key, spend_key, subaddress) ==
    IF subaddress = <<0, 0>> THEN PublicFromSecret(view_key)
    ELSE ScalarMult(spend_key, view_key)

\* MoneroCrypto.new_address(key_pair, unique_factor): the key pair of the
\* address and its network byte.
CryptoNewAddress(view_key, spend_key, index) ==
    IF index = <<0, 0>>
    THEN [view_key |-> PublicFromSecret(view_key), spend_key |-> spend_key,
          network |-> "standard"]
    ELSE LET sub == GenerateSubaddressPublicSpendKey(view_key, spend_key, index)
         IN  [view_key |-> GenerateSubaddressPublicViewKey(view_key, sub, index),
              spend_key |-> sub, network |-> "subaddress"]

\* The address WatchWallet.new_address(index) of wallet w returns.
AddressOf(w, index) ==
    CryptoNewAddress(PrivateViewKey(w), PublicSpendKey(w), index)

\* WatchWallet.unique_factors as the set of its (spend key, index) entries:
\* the root key, then what regenerate_unique_factors((0, regen)) adds
\* (regen = -1: not called), then what new_address adds for the indices of
\* addressed.  An entry is added only for a key not yet present.
RegenerateKey(w, index) ==
    CryptoNewAddress(PublicViewKeyBytes(w), PublicSpendKey(w), index).spend_key

Registry(w, regen, addressed) ==
    LET root == {[key |-> PublicSpendKey(w), index |-> <<0, 0>>]}
        regenerated ==
            {[key |-> RegenerateKey(w, <<0, n>>), index |-> <<0, n>>] :
                 n \in 1..regen}
        first == root \cup regenerated
        new == {[key |-> AddressOf(w, i).spend_key, index |-> i] :
                    i \in addressed \ {<<0, 0>>}}
    IN  first \cup {e \in new : \A f \in first : f.key # e.key}

\* A variant that multiplies the base point, whatever point it is given.
CreateSharedKeyOfBase(scalar, point) == ScalarMult(BasePoint, scalar)

\* MoneroCrypto.create_shared_key(scalar, point), the cofactor left out.
CreateSharedKey(scalar, point) == ScalarMult(point, scalar)

TxSecret == Scalar("r", "-")

\* A variant that publishes r.G for every output, subaddress or not.
TxRStandard(output) == ScalarMult(BasePoint, TxSecret)

\* The R spendable_transaction publishes for an output: r.D for a
\* subaddress, r.G otherwise.
TxR(output) ==
    IF output.network = "subaddress"
    THEN ScalarMult(output.spend_key, TxSecret)
    ELSE ScalarMult(BasePoint, TxSecret)

\* A SpendableOutput for an address and an amount.
SpendableOutput(address, amount) ==
    [network |-> address.network, view_key |-> address.view_key,
     spend_key |-> address.spend_key, amount |-> amount]

\* The output spendable_transaction builds at position o (from 0): its
\* one-time key Hs(8rA || o) G + B, its amount encrypted under the amount
\* key and the commitment to it (generate_ringct_signatures).
BuiltOutput(output, o) ==
    LET amount_key == [shared |-> CreateSharedKey(TxSecret, output.view_key),
                       o |-> o]
    IN  [key |-> [amount_key |-> amount_key, spend_key |-> output.spend_key],
         amount |-> [amount_key |-> amount_key, amount |-> output.amount],
         commitment |-> [amount_key |-> amount_key, amount |-> output.amount]]

\* The members of a set, in some order.
RECURSIVE SetToSeq(_)
SetToSeq(S) ==
    IF S = {} THEN <<>>
    ELSE LET x == CHOOSE y \in S : TRUE IN <<x>> \o SetToSeq(S \ {x})

Reversed(s) == [i \in DOMAIN s |-> s[Len(s) + 1 - i]]

\* list(set(Rs)): each R once, in an order the build chooses (rev).
Deduplicated(Rs, rev) ==
    LET once == SetToSeq(SeqRange(Rs))
    IN  IF rev THEN Reversed(once) ELSE once

\* spendable_transaction(outputs) after the shuffle p: the outputs by
\* position and the Rs its extra carries (tag 0x01, then tag 0x04).
BuiltTransaction(outputs, p, rev) ==
    LET outs == Shuffled(outputs, p)
    IN  [outputs |-> [i \in DOMAIN outs |-> BuiltOutput(outs[i], i - 1)],
         extra |-> Deduplicated([i \in DOMAIN outs |-> TxR(outs[i])], rev)]

\* A variant that reads the first R of the extra only.
TransactionRsFirstOnly(extra, rev) == SubSeq(extra, 1, 1)

\* Transaction.__init__: the Rs collected from the extra, each once.
TransactionRs(extra, rev) == Deduplicated(extra, rev)

NoOutput == [found |-> FALSE, o |-> 0, amount |-> 0, subaddress |-> <<0, 0>>]

\* A variant that takes the decrypted amount without rebuilding the
\* commitment.
ScanOutputTrustingAmount(registry, shared_key, tx, o) ==
    LET output == tx.outputs[o + 1]
        amount_key == [shared |-> shared_key, o |-> o]
        recovered == amount_key = output.key.amount_key
        entries == {e \in registry : recovered /\ e.key = output.key.spend_key}
    IN  IF entries = {} THEN NoOutput
        ELSE [found |-> TRUE, o |-> o, amount |-> output.amount.amount,
              subaddress |-> (CHOOSE e \in entries : TRUE).index]

\* MoneroCrypto.can_spend_output(unique_factors, shared_key, tx, o).
ScanOutput(registry, shared_key, tx, o) ==
    LET output == tx.outputs[o + 1]
        amount_key == [shared |-> shared_key, o |-> o]
        recovered == amount_key = output.key.amount_key
        entries == {e \in registry : recovered /\ e.key = output.key.spend_key}
        amount == IF output.amount.amount_key = amount_key
                  THEN output.amount.amount ELSE -1
    IN  IF entries = {} THEN NoOutput
        ELSE IF [amount_key |-> amount_key, amount |-> amount]
                    # output.commitment
        THEN NoOutput
        ELSE [found |-> TRUE, o |-> o, amount |-> amount,
              subaddress |-> (CHOOSE e \in entries : TRUE).index]

\* WatchWallet.can_spend(tx) of the wallet with view key w and the given
\* registry: for every shared key, every output not found yet; the result
\* by position.
CanSpendBuilt(w, registry, tx, rev) ==
    LET Rs == TransactionRs(tx.extra, rev)
        shared_keys ==
            [k \in DOMAIN Rs |-> CreateSharedKey(PrivateViewKey(w), Rs[k])]
        Hits(o) == {k \in DOMAIN Rs :
                       ScanOutput(registry, shared_keys[k], tx, o).found}
        positions == {o \in 0..(Len(tx.outputs) - 1) : Hits(o) # {}}
    IN  {ScanOutput(registry, shared_keys[Min(Hits(o))], tx, o) :
             o \in positions}

\* The destinations a transaction is built for: a wallet, the index of one
\* of its addresses, an amount.
Destinations ==
    {[w |-> "A", idx |-> <<0, 0>>, amount |-> 5000],
     [w |-> "A", idx |-> <<0, 1>>, amount |-> 23000],
     [w |-> "A", idx |-> <<0, 2>>, amount |-> 28000],
     [w |-> "B", idx |-> <<0, 0>>, amount |-> 5000]}

\* The change output Wallet.sign passes: the root address of the sender, B.
Change == [w |-> "B", idx |-> <<0, 0>>, amount |-> 7000]

\* A transaction to scan: the destinations and the shuffle it is built
\* with, the order its Rs come in, how often the scanned copy repeats the
\* Rs and how many unrelated Rs it carries in front; and the scanning
\* wallet with what it has registered.
ScanCases ==
    [op : {"built"},
     dests : SeqsUpTo(Destinations, 2),
     p : Permutations(1..2) \cup Permutations(1..3),
     rev : BOOLEAN,
     dups : {0, MaxDuplicates},
     unrelated : 0..MaxUnrelated,
     scanner : Wallets,
     regen : {-1, 1},
     addressed : {{}, {<<0, 1>>}, {<<0, 2>>}},
     result : {{}}]

\* The outputs of the case, change included, by position after the shuffle.
CaseOutputs(c) == Shuffled(Append(c.dests, Change), c.p)

\* An R that no output of the transaction was built with.
UnrelatedR(k) == PublicFromSecret(Scalar("x", "x"))

\* The transaction of the case as the scanner receives it.
CaseTransaction(c, dups, unrelated) ==
    LET all == Append(c.dests, Change)
        tx == BuiltTransaction(
                  [i \in DOMAIN all |->
                      SpendableOutput(AddressOf(all[i].w, all[i].idx),
                                      all[i].amount)],
                  c.p, c.rev)
        front == [k \in 1..unrelated |-> UnrelatedR(k)]
        repeated == Concat([k \in 1..(dups + 1) |-> tx.extra])
    IN  [tx EXCEPT !.extra = front \o repeated]

CaseRegistry(c) == Registry(c.scanner, c.regen, c.addressed)

\* can_spend of the scanner on the transaction of the case.
Scan ==
    /\ ret.op = "built"
    /\ ret' = [ret EXCEPT
                  !.op = "scanned",
                  !.result = CanSpendBuilt(ret.scanner, CaseRegistry(ret),
                                 CaseTransaction(ret, ret.dups, ret.unrelated),
                                 ret.rev)]
    /\ UNCHANGED <<nodeVars, walletVars, contexts, budget, calls, polled>>

InitScan ==
    /\ height = 1
    /\ spent_images = {}
    /\ last_block = 0
    /\ confirmation_queue = <<>>
    /\ inputs = <<>>
    /\ unique_factors = {<<0, 0>>}
    /\ contexts = <<>>
    /\ budget = [external |-> 0, pollfail |-> 0, override |-> 0]
    /\ calls = [t \in Threads |-> IdleCall]
    /\ polled = {}
    /\ ret \in {c \in ScanCases : DOMAIN c.p = 1..(Len(c.dests) + 1)}

NextScan == Scan

SpecScan == InitScan /\ [][NextScan]_vars

\* The results of a scan for position o (from 0).
ResultsAt(o) == {r \in ret.result : r.o = o}

\* C16: an output built for the root address of the scanning wallet, or
\* for a subaddress the wallet has handed out with new_address, is reported
\* by its can_spend exactly once, under its position in the shuffled
\* outputs and with the amount it was built with; an output built for an
\* address of the other wallet is not reported.
C16_OwnerFindsBuiltOutput ==
    ret.op = "scanned" =>
        LET outs == CaseOutputs(ret)
        IN  \A i \in DOMAIN outs :
               /\ (/\ outs[i].w = ret.scanner
                   /\ outs[i].idx \in ret.addressed \cup {<<0, 0>>})
                      => /\ Cardinality(ResultsAt(i - 1)) = 1
                         /\ \A r \in ResultsAt(i - 1) :
                               /\ r.amount = outs[i].amount
                               /\ r.subaddress = outs[i].idx
               /\ outs[i].w # ret.scanner => ResultsAt(i - 1) = {}

\* Wallet A has found, in one transaction shuffled out of the order it was
\* asked in, an output to a subaddress and one to its root address, next
\* to the change of the sender.
C16_FoundRootAndSubaddress ==
    /\ ret.op = "scanned"
    /\ ret.scanner = "A"
    /\ ret.dups = 0 /\ ret.unrelated = 0
    /\ ret.p # <<1, 2, 3>>
    /\ Cardinality(ret.result) = 2
    /\ \E r \in ret.result : r.subaddress = <<0, 1>> /\ r.amount = 23000
    /\ \E r \in ret.result : r.subaddress = <<0, 0>> /\ r.amount = 5000

\* C17: once the scanning wallet has run regenerate_unique_factors((0, N)),
\* an output built for its address new_address((0, n)) with n <= N is
\* reported by can_spend, under subaddress (0, n); an output built for a
\* subaddress beyond N that new_address has not registered either is not
\* reported.
C17_RegeneratedFactorsFindOutputs ==
    ret.op = "scanned" =>
        LET outs == CaseOutputs(ret)
        IN  \A i \in DOMAIN outs :
               outs[i].w = ret.scanner =>
                   /\ (ret.regen >= 0 /\ outs[i].idx[2] <= ret.regen)
                          => \E r \in ResultsAt(i - 1) :
                                r.subaddress = outs[i].idx
                   /\ (/\ outs[i].idx[2] > ret.regen
                       /\ outs[i].idx # <<0, 0>>
                       /\ outs[i].idx \notin ret.addressed)
                          => ResultsAt(i - 1) = {}

\* The transaction of the case with every R once and none added.
DeduplicatedTransaction(c) == CaseTransaction(c, 0, 0)

\* C18: can_spend reports for a transaction whose extra repeats its Rs and
\* carries unrelated Rs the outputs, amounts and subaddresses it reports
\* for the transaction with every R once, in whatever order the Rs are
\* tried, and reports no position twice.
C18_RepeatedRsChangeNothing ==
    ret.op = "scanned" =>
        /\ \A rev \in BOOLEAN :
              ret.result = CanSpendBuilt(ret.scanner, CaseRegistry(ret),
                                         DeduplicatedTransaction(ret), rev)
        /\ \A r1, r2 \in ret.result : r1.o = r2.o => r1 = r2

\* Wallet A has scanned a transaction that carries an unrelated R in front
\* and its two Rs three times each, and has found its two outputs.
C18_FoundAmongRepeatedRs ==
    /\ ret.op = "scanned"
    /\ ret.scanner = "A"
    /\ ret.dups = MaxDuplicates /\ ret.unrelated = MaxUnrelated
    /\ Len(CaseTransaction(ret, ret.dups, ret.unrelated).extra)
           = MaxUnrelated + (2 * (MaxDuplicates + 1))
    /\ Cardinality(ret.result) = 2

(***************************************************************************)
(* One send from end to end (Harness.send): wallet A, the wallet of Init,  *)
(* prepares a send to an address of wallet B, its cold wallet signs the    *)
(* context, A finalizes it, the transaction is mined into the next block,  *)
(* and both wallets poll.  A context carries what the code puts in it:     *)
(* the inputs, the output asked for and the fee; p and rev are the shuffle *)
(* and the order of the Rs the signing drew, block the block the           *)
(* published transaction is mined in.                                      *)
(***************************************************************************)
FlowRequests ==
    {[amount |-> 5000, fee |-> 2000, minimum_input |-> 0],
     [amount |-> 27000, fee |-> 3000, minimum_input |-> 0],
     [amount |-> 35000, fee |-> 3000, minimum_input |-> 0]}

\* The indices of the addresses of B a send goes to; B has handed them out
\* with new_address.
FlowDests == {<<0, 0>>, <<0, 1>>}

FlowMine ==
    /\ height < MaxFlowHeight
    /\ height' = height + 1
    /\ ret' = NoRet
    /\ UNCHANGED <<spent_images, walletVars, contexts, budget, calls, polled>>

\* The amounts of the inputs of a context, from the wallet's map.
InputAmounts(ins) ==
    LET order == SortedSeq(ins)
    IN  [i \in DOMAIN order |-> Lookup(inputs, order[i]).amount]

\* prepare_send(dest, amount, fee) on the wallet's own map.
FlowPrepare(r, dest, draw) ==
    LET out == PrepareOutcome(inputs, height, r.amount, r.fee,
                              r.minimum_input, NoFail, draw)
    IN  /\ contexts = <<>>
        /\ inputs' = Marked(inputs, out)
        /\ contexts' =
               IF out.err = "none"
               THEN <<[ins |-> SelIndices(out.sel), own |-> TRUE,
                       fin |-> "inflight", amount |-> r.amount,
                       fee |-> r.fee, dest |-> dest, p |-> <<>>,
                       rev |-> FALSE, block |-> 0]>>
               ELSE contexts
        /\ ret' = [NoRet EXCEPT
                      !.op = "prepare_send", !.err = out.err,
                      !.sel = IF out.err = "none"
                              THEN [i \in DOMAIN out.sel |-> out.sel[i].index]
                              ELSE <<>>]
        /\ UNCHANGED <<nodeVars, last_block, confirmation_queue,
                       unique_factors, budget, calls, polled>>

\* Wallet.sign(context): spendable_transaction on the amounts of the
\* inputs, the one output of the context and the fee; it raises or returns
\* the transaction.
FlowSign(p, rev) ==
    LET c == contexts[1]
        amounts == InputAmounts(c.ins)
        tx == SpendableTransaction(amounts, <<c.amount>>, c.fee, p)
    IN  /\ contexts # <<>>
        /\ c.fin = "inflight"
        /\ DOMAIN p = DOMAIN WithChange(amounts, <<c.amount>>, c.fee)
        /\ tx.err # "none" => ~rev
        /\ contexts' =
               <<[c EXCEPT !.fin = IF tx.err = "none" THEN "signed"
                                   ELSE "unsignable",
                           !.p = p, !.rev = rev]>>
        /\ ret' = [NoRet EXCEPT !.op = "sign", !.err = tx.err,
                                !.result = tx.output_amounts]
        /\ UNCHANGED <<nodeVars, walletVars, budget, calls, polled>>

\* finalize_send(success, context, serialization): a signed transaction is
\* published when success is true; a context that could not be signed is
\* finalized with success false.
FlowFinalize(success, accept) ==
    LET c == contexts[1]
        published == success /\ PublishAccepted(c.ins, accept)
    IN  /\ contexts # <<>>
        /\ c.fin \in {"signed", "unsignable"}
        /\ success => c.fin = "signed"
        /\ spent_images' =
               IF published THEN spent_images \cup c.ins ELSE spent_images
        /\ inputs' = SetState(inputs, c.ins, FinalizeState(published))
        /\ contexts' =
               IF published
               THEN <<[c EXCEPT !.fin = "published", !.block = height]>>
               ELSE <<>>
        /\ ret' = [NoRet EXCEPT !.op = "finalize_send",
                     !.sel = SortedSeq(c.ins), !.success = success,
                     !.result = published]
        /\ UNCHANGED <<height, last_block, confirmation_queue, unique_factors,
                       budget, calls, polled>>

\* The transaction signed for context c: the output of the context, then
\* the change to the root address of A when there is one, shuffled.
FlowTransaction(c) ==
    LET amounts == WithChange(InputAmounts(c.ins), <<c.amount>>, c.fee)
        addresses == <<AddressOf("B", c.dest), AddressOf("A", <<0, 0>>)>>
    IN  BuiltTransaction(
            [i \in DOMAIN amounts |->
                SpendableOutput(addresses[i], amounts[i])],
            c.p, c.rev)

\* What can_spend of wallet w reports for the transaction of context c.
FlowFound(w, c) ==
    CanSpendBuilt(w, Registry(w, -1, IF w = "B" THEN FlowDests ELSE {}),
                  FlowTransaction(c), c.rev)

\* The index the wallet's map holds the output at position o of the sent
\* transaction under.
FlowIndex(o) == 10 + o

\* The OutputInfos of A in the sent transaction, when its block is among
\* the popped ones.
FlowOutputs(popped) ==
    IF contexts # <<>> /\ contexts[1].fin = "published"
           /\ contexts[1].block \in SeqRange(popped)
    THEN LET found == FlowFound("A", contexts[1])
             order == SortedSeq({r.o : r \in found})
         IN  [i \in DOMAIN order |->
                 LET r == CHOOSE x \in found : x.o = order[i]
                 IN  [index |-> FlowIndex(r.o), timelock |-> 0,
                      amount |-> r.amount, spend_key |-> r.subaddress,
                      state |-> Spendable]]
    ELSE <<>>

\* poll_blocks of A: the blocks it pops hold their transactions of the
\* fixture and the sent transaction mined in them.
FlowPoll ==
    LET all == confirmation_queue \o PollFetched
        n == PollPopCount(all)
        popped == SubSeq(all, 1, n)
        found == ScanFound(unique_factors, ScanList(popped))
                     \o FlowOutputs(popped)
    IN  /\ confirmation_queue' = SubSeq(all, n + 1, Len(all))
        /\ last_block' = Max2(last_block, height - 1)
        /\ inputs' = Merge(inputs, found)
        /\ polled' = polled \cup {found[i].index : i \in DOMAIN found}
        /\ ret' = [NoRet EXCEPT !.op = "poll_blocks",
                     !.result = [i \in DOMAIN found |-> found[i].index]]
        /\ UNCHANGED <<nodeVars, unique_factors, contexts, budget, calls>>

NextFlow ==
    \/ FlowMine
    \/ FlowPoll
    \/ \E r \in FlowRequests, dest \in FlowDests, draw \in Draws :
          FlowPrepare(r, dest, draw)
    \/ \E n \in 0..2 : \E p \in Permutations(1..n), rev \in BOOLEAN :
          FlowSign(p, rev)
    \/ \E success \in BOOLEAN, accept \in BOOLEAN :
          FlowFinalize(success, accept)

SpecFlow == Init /\ [][NextFlow]_vars

\* The sum of the Spendable outputs of a map.
SpendableSum(inp) ==
    SumSeq([i \in DOMAIN inp |->
               IF inp[i].state = Spendable THEN inp[i].amount ELSE 0])

\* The sum of the outputs of the map that were not made by the send: what
\* the Spendable sum is without it.
ReceivedSum(inp) ==
    SumSeq([i \in DOMAIN inp |->
               IF inp[i].index \in Outs THEN inp[i].amount ELSE 0])

\* The block of the published transaction has left the queue of a wallet
\* polled to the tip.
SendConfirmed ==
    /\ contexts # <<>>
    /\ contexts[1].fin = "published"
    /\ contexts[1].block <= last_block - Len(confirmation_queue)

\* C19: once the send of amount A with fee F is published, mined and
\* popped from the queue by the polls, the Spendable outputs of the sender
\* sum to A + F less than they do without the send, the change counted;
\* and the wallet that holds the keys of the destination, scanning the
\* transaction in its poll, finds one output, of amount A.
C19_SendMovesAmountAndFee ==
    SendConfirmed =>
        /\ SpendableSum(inputs)
               = ReceivedSum(inputs) - (contexts[1].amount + contexts[1].fee)
        /\ \E r \in FlowFound("B", contexts[1]) :
              /\ FlowFound("B", contexts[1]) = {r}
              /\ r.amount = contexts[1].amount

\* The send of 5000 with fee 2000 is confirmed; the sender holds the
\* change of 23000 as a Spendable output and its input is Spent.
C19_ChangeCameBack ==
    /\ SendConfirmed
    /\ contexts[1].amount = 5000
    /\ contexts[1].dest = <<0, 1>>
    /\ \E i, j \in DOMAIN inputs :
          /\ inputs[i].state = Spent
          /\ inputs[j].index \notin Outs
          /\ inputs[j].state = Spendable
          /\ inputs[j].amount = 23000

\* C20: Wallet.sign turns every context prepare_send returned into a
\* transaction of two outputs, the amount asked for and the change.
C20_SignMakesTwoOutputs ==
    [][ret'.op = "sign" =>
          /\ ret'.err = "none"
          /\ Len(ret'.result) = 2
          /\ \E i \in 1..2 :
                /\ ret'.result[i] = contexts[1].amount
                /\ ret'.result[3 - i] =
                       SumSeq(InputAmounts(contexts[1].ins))
                           - contexts[1].amount - contexts[1].fee]_vars

(***************************************************************************)
(* Bytes.  A byte string is a sequence of 0..255; the code counts from 0,  *)
(* so byte k of the code is element k + 1 here.                            *)
(***************************************************************************)
\* i[a:b] of Python: the bytes from a up to b, cut at the end of i.
Slice(i, a, b) ==
    LET hi == IF b < Len(i) THEN b ELSE Len(i)
    IN  IF a >= hi THEN <<>> ELSE SubSeq(i, a + 1, hi)

RECURSIVE Pow(_, _)
Pow(b, e) == IF e = 0 THEN 1 ELSE b * Pow(b, e - 1)

\* int.from_bytes(b, byteorder="little").
RECURSIVE FromBytesLittle(_)
FromBytesLittle(b) ==
    IF b = <<>> THEN 0 ELSE Head(b) + 256 * FromBytesLittle(Tail(b))

(***************************************************************************)
(* Var ints.  The integers of Python have no width; an integer is kept as  *)
(* its bits, least significant first and without leading zeros, so that    *)
(* the shifts and masks of the code are done on any integer.               *)
(***************************************************************************)
\* The bits of a small integer.
RECURSIVE Bits(_)
Bits(n) == IF n = 0 THEN <<>> ELSE <<n % 2>> \o Bits(n \div 2)

\* The small integer of some bits.
RECURSIVE IntOf(_)
IntOf(bits) == IF bits = <<>> THEN 0 ELSE Head(bits) + 2 * IntOf(Tail(bits))

\* The bits without leading zeros.
RECURSIVE Normal(_)
Normal(bits) ==
    IF bits = <<>> \/ bits[Len(bits)] = 1 THEN bits
    ELSE Normal(SubSeq(bits, 1, Len(bits) - 1))

\* i << k, i >> k and i & (2^k - 1).
ShiftLeft(i, k) == IF i = <<>> THEN <<>> ELSE [j \in 1..k |-> 0] \o i

ShiftRight(i, k) == Slice(i, k, Len(i))

LowBits(i, k) == Normal(Slice(i, 0, k))

\* a | b.
BitsOr(a, b) ==
    [k \in 1..Max2(Len(a), Len(b)) |->
        IF (k <= Len(a) /\ a[k] = 1) \/ (k <= Len(b) /\ b[k] = 1) THEN 1
        ELSE 0]

\* a + b, from bit k on with a carry.
RECURSIVE BitsAddFrom(_, _, _, _)
BitsAddFrom(a, b, k, carry) ==
    LET x == IF k <= Len(a) THEN a[k] ELSE 0
        y == IF k <= Len(b) THEN b[k] ELSE 0
    IN  IF k > Len(a) /\ k > Len(b)
        THEN IF carry = 1 THEN <<1>> ELSE <<>>
        ELSE <<(x + y + carry) % 2>>
                 \o BitsAddFrom(a, b, k + 1, (x + y + carry) \div 2)

BitsAdd(a, b) == BitsAddFrom(a, b, 1, 0)

\* to_var_int(i).
RECURSIVE ToVarInt(_)
ToVarInt(i) ==
    IF Len(i) >= 8
    THEN <<IntOf(BitsOr(LowBits(i, 7), Bits(128)))>>
             \o ToVarInt(ShiftRight(i, 7))
    ELSE <<IntOf(i)>>

\* The loop of from_var_int from byte cursor on; reading past the end
\* raises IndexError.
RECURSIVE FromVarIntLoop(_, _, _, _)
FromVarIntLoop(i, original_cursor, cursor, value) ==
    IF cursor >= Len(i)
    THEN [err |-> "IndexError", value |-> <<>>, cursor |-> cursor]
    ELSE LET byte == i[cursor + 1]
             v == BitsAdd(value,
                      ShiftLeft(LowBits(Bits(byte), 7),
                                (cursor - original_cursor) * 7))
         IN  IF byte < 128
             THEN [err |-> "none", value |-> v, cursor |-> cursor + 1]
             ELSE FromVarIntLoop(i, original_cursor, cursor + 1, v)

\* A variant that shifts by the place of the byte in i, not in the var int.
FromVarIntFromStart(i, cursor) == FromVarIntLoop(i, 0, cursor, <<>>)

\* from_var_int(i, cursor): the value, as bits, and the cursor behind it.
FromVarIntBits(i, cursor) == FromVarIntLoop(i, cursor, cursor, <<>>)

\* from_var_int(i, cursor) where the value is small: a tag, a length.
FromVarInt(i, cursor) ==
    LET res == FromVarIntBits(i, cursor)
    IN  [err |-> res.err, value |-> IntOf(res.value), cursor |-> res.cursor]

\* int.to_bytes(length, byteorder="little").
ToBytesLittle(i, length) ==
    IF Len(i) > 8 * length THEN [err |-> "OverflowError", bytes |-> <<>>]
    ELSE [err |-> "none",
          bytes |-> [k \in 1..length |-> IntOf(Slice(i, 8 * (k - 1), 8 * k))]]

\* int.from_bytes(b, byteorder="little"), as bits.
BitsFromBytesLittle(b) ==
    Normal(Concat([k \in DOMAIN b |->
                      Bits(b[k]) \o [j \in 1..(8 - Len(Bits(b[k]))) |-> 0]]))

\* to_rpc_var_int(i).
ToRpcVarInt(i) ==
    LET mask == IF Len(i) <= 6 THEN 0
                ELSE IF Len(i) <= 14 THEN 1
                ELSE IF Len(i) <= 30 THEN 2 ELSE 3
        shifted == Normal(BitsOr(ShiftLeft(i, 2), Bits(mask)))
    IN  ToBytesLittle(shifted, Pow(2, mask))

\* from_rpc_var_int(i, cursor).
FromRpcVarInt(i, cursor) ==
    IF cursor >= Len(i)
    THEN [err |-> "IndexError", value |-> <<>>, cursor |-> cursor]
    ELSE LET mask == i[cursor + 1] % 4
             length == Pow(2, mask)
         IN  [err |-> "none",
              value |-> ShiftRight(
                            BitsFromBytesLittle(
                                Slice(i, cursor, cursor + length)), 2),
              cursor |-> cursor + length]

(***************************************************************************)
(* The extra field of a transaction (Transaction.__init__).  The parser    *)
(* collects Rs and payment IDs until the field ends, a break leaves the    *)
(* loop or an IndexError is caught; what it collected by then stays, and   *)
(* both lists end as sets.                                                 *)
(***************************************************************************)
\* skip_tag(cursor): -1 stands for the IndexError it lets through.
SkipTag(extra, cursor) ==
    LET first == FromVarInt(extra, cursor)
        second == FromVarInt(extra, first.cursor)
    IN  IF first.err # "none" \/ second.err # "none" THEN -1
        ELSE second.cursor + second.value

\* check_R(R).
CheckR(R) == Len(R) = KeyBytes

\* The loop over the payment IDs of a nonce that ends at end.
RECURSIVE NonceLoop(_, _, _, _)
NonceLoop(extra, cursor, end, payment_IDs) ==
    IF cursor + 9 > end THEN [err |-> "none", payment_IDs |-> payment_IDs]
    ELSE IF cursor >= Len(extra)
    THEN [err |-> "IndexError", payment_IDs |-> payment_IDs]
    ELSE IF extra[cursor + 1] = 0
    THEN NonceLoop(extra, cursor + 33, end,
             payment_IDs \cup {Slice(extra, cursor + 1, cursor + 33)})
    ELSE IF extra[cursor + 1] = 1
    THEN NonceLoop(extra, cursor + 9, end,
             payment_IDs \cup {Slice(extra, cursor + 1, cursor + 9)})
    ELSE [err |-> "none", payment_IDs |-> payment_IDs]

\* The loop over the keys additional public keys announce; a key that
\* fails check_R leaves this loop only.
RECURSIVE AdditionalLoop(_, _, _, _)
AdditionalLoop(extra, cursor, keys, Rs) ==
    IF keys = 0 \/ ~CheckR(Slice(extra, cursor, cursor + KeyBytes))
    THEN [cursor |-> cursor, Rs |-> Rs]
    ELSE AdditionalLoop(extra, cursor + KeyBytes, keys - 1,
             Rs \cup {Slice(extra, cursor, cursor + KeyBytes)})

\* The loop over the fields of extra from cursor on.
RECURSIVE ExtraLoop(_, _, _, _)
ExtraLoop(extra, cursor, Rs, payment_IDs) ==
    LET done == [Rs |-> Rs, payment_IDs |-> payment_IDs]
        tag == FromVarInt(extra, cursor)
        at == tag.cursor
    IN  IF cursor >= Len(extra) \/ tag.err # "none" THEN done
        ELSE IF tag.value = 0
        THEN ExtraLoop(extra,
                 at + 8 + FromBytesLittle(Slice(extra, at, at + 8)),
                 Rs, payment_IDs)
        ELSE IF tag.value = 1
        THEN IF CheckR(Slice(extra, at, at + KeyBytes))
             THEN ExtraLoop(extra, at + KeyBytes,
                      Rs \cup {Slice(extra, at, at + KeyBytes)}, payment_IDs)
             ELSE done
        ELSE IF tag.value = 2
        THEN LET length == FromVarInt(extra, at)
                 end == length.cursor + length.value
                 nonce == NonceLoop(extra, length.cursor, end, payment_IDs)
             IN  IF length.err # "none" THEN done
                 ELSE IF nonce.err # "none"
                 THEN [Rs |-> Rs, payment_IDs |-> nonce.payment_IDs]
                 ELSE ExtraLoop(extra, end, Rs, nonce.payment_IDs)
        ELSE IF tag.value = 4
        THEN LET keys == FromVarInt(extra, at)
                 more == AdditionalLoop(extra, keys.cursor, keys.value, Rs)
             IN  IF keys.err # "none" THEN done
                 ELSE ExtraLoop(extra, more.cursor, more.Rs, payment_IDs)
        ELSE IF tag.value = 3 \/ tag.value = 222
        THEN IF SkipTag(extra, at) = -1 THEN done
             ELSE ExtraLoop(extra, SkipTag(extra, at), Rs, payment_IDs)
        ELSE done

\* Transaction(tx_hash, json).Rs and .payment_IDs for json["extra"].
ParseExtra(extra) == ExtraLoop(extra, 0, {}, {})

\* n bytes of value b.
Bytes(n, b) == [k \in 1..n |-> b]

\* The pieces extras are put together from: transaction public keys, nonces
\* with an encrypted and with a plain payment ID, a nonce of 9 bytes that
\* announces a plain payment ID, additional public keys (two of two, one of
\* two), a merge mining tag, padding, an unknown tag and a tag whose var
\* int goes on.
ExtraPieces ==
    {<<1>> \o Bytes(KeyBytes, 17),
     <<1>> \o Bytes(KeyBytes, 34),
     <<2, 9, 1>> \o Bytes(8, 51),
     <<2, 33, 0>> \o Bytes(32, 68),
     <<2, 9, 0>> \o Bytes(8, 85),
     <<4, 2>> \o Bytes(KeyBytes, 17) \o Bytes(KeyBytes, 102),
     <<4, 2>> \o Bytes(KeyBytes, 119),
     <<3, 5, 2, 7, 7>>,
     <<0, 1, 0, 0, 0, 0, 0, 0, 0, 0>>,
     <<9>>,
     <<128>>}

\* The extras parsed: up to MaxPieces pieces in a row, cut anywhere.
Extras ==
    {Slice(Concat(ps), 0, n) :
        ps \in SeqsUpTo(ExtraPieces, MaxPieces), n \in 0..MaxExtraBytes}

ParseTransaction ==
    /\ ret.op = "extra"
    /\ ret' = [ret EXCEPT !.op = "parsed", !.result = ParseExtra(ret.extra)]
    /\ UNCHANGED <<nodeVars, walletVars, contexts, budget, calls, polled>>

InitExtra ==
    /\ height = 1
    /\ spent_images = {}
    /\ last_block = 0
    /\ confirmation_queue = <<>>
    /\ inputs = <<>>
    /\ unique_factors = {<<0, 0>>}
    /\ contexts = <<>>
    /\ budget = [external |-> 0, pollfail |-> 0, override |-> 0]
    /\ calls = [t \in Threads |-> IdleCall]
    /\ polled = {}
    /\ ret \in [op : {"extra"}, err : {"none"}, extra : Extras,
                result : {<<>>}]

NextExtra == ParseTransaction

SpecExtra == InitExtra /\ [][NextExtra]_vars
\* The payment IDs of a nonce that are whole and inside it, up to the first
\* that is not; whole is whether the nonce was read to its end.
RECURSIVE WholeNonce(_, _, _, _)
WholeNonce(extra, cursor, end, payment_IDs) ==
    LET size == IF cursor < Len(extra) /\ extra[cursor + 1] = 0 THEN 32
                ELSE 8
    IN  IF cursor + 9 > end \/ cursor >= Len(extra)
            \/ extra[cursor + 1] \notin {0, 1}
        THEN [whole |-> end <= Len(extra), payment_IDs |-> payment_IDs]
        ELSE IF cursor + 1 + size > end \/ cursor + 1 + size > Len(extra)
        THEN [whole |-> FALSE, payment_IDs |-> payment_IDs]
        ELSE WholeNonce(extra, cursor + 1 + size, end,
                 payment_IDs
                     \cup {Slice(extra, cursor + 1, cursor + 1 + size)})

\* What the fields of extra hold that are whole and well formed, up to the
\* first that is not.
RECURSIVE WholeFields(_, _, _, _)
WholeFields(extra, cursor, Rs, payment_IDs) ==
    LET done == [Rs |-> Rs, payment_IDs |-> payment_IDs]
        tag == FromVarInt(extra, cursor)
        at == tag.cursor
    IN  IF cursor >= Len(extra) \/ tag.err # "none" THEN done
        ELSE IF tag.value = 0
        THEN WholeFields(extra,
                 at + 8 + FromBytesLittle(Slice(extra, at, at + 8)),
                 Rs, payment_IDs)
        ELSE IF tag.value = 1
        THEN IF at + KeyBytes <= Len(extra)
             THEN WholeFields(extra, at + KeyBytes,
                      Rs \cup {Slice(extra, at, at + KeyBytes)}, payment_IDs)
             ELSE done
        ELSE IF tag.value = 2
        THEN LET length == FromVarInt(extra, at)
                 end == length.cursor + length.value
                 nonce == WholeNonce(extra, length.cursor, end, payment_IDs)
             IN  IF length.err # "none" THEN done
                 ELSE IF ~nonce.whole
                 THEN [Rs |-> Rs, payment_IDs |-> nonce.payment_IDs]
                 ELSE WholeFields(extra, end, Rs, nonce.payment_IDs)
        ELSE IF tag.value = 4
        THEN LET keys == FromVarInt(extra, at)
                 more == AdditionalLoop(extra, keys.cursor, keys.value, Rs)
             IN  IF keys.err # "none" THEN done
                 ELSE IF more.cursor # keys.cursor + KeyBytes * keys.value
                 THEN [Rs |-> more.Rs, payment_IDs |-> payment_IDs]
                 ELSE WholeFields(extra, more.cursor, more.Rs, payment_IDs)
        ELSE IF tag.value = 3 \/ tag.value = 222
        THEN IF SkipTag(extra, at) = -1 THEN done
             ELSE WholeFields(extra, SkipTag(extra, at), Rs, payment_IDs)
        ELSE done

\* C21: parsing an extra field returns, and the Rs and payment IDs it
\* exposes are those of the fields read whole before the first malformed
\* byte, unknown tag or truncation: every R has 32 bytes, every payment ID
\* has 32 or 8 bytes and lies inside its nonce, and nothing behind the
\* first malformed field is collected.
C21_ExtraKeepsWholeFieldsOnly ==
    ret.op = "parsed" =>
        /\ ret.err = "none"
        /\ \A R \in ret.result.Rs : Len(R) = KeyBytes
        /\ \A id \in ret.result.payment_IDs : Len(id) \in {8, 32}
        /\ ret.result = WholeFields(ret.extra, 0, {}, {})

(***************************************************************************)
(* can_spend on a transaction as the node delivers it: the Rs and payment  *)
(* IDs are whatever the extra held, and an output may carry another        *)
(* encrypted amount or commitment than it was built with.                  *)
(***************************************************************************)
\* The variants: MoneroCrypto and MoneroPaymentIDCrypto.
Variants == {"subaddress", "payment_id"}

\* 32 bytes that are not the encoding of a point of the curve.
OffCurve == [sc |-> {}, base |-> [kind |-> "off", w |-> "-", view |-> NoScalar,
                                  idx |-> <<0, 0>>]]

\* ed.decodepoint(point) raises for bytes that are not on the curve.
DecodePointRaises(point) == point.base.kind = "off"

\* int.to_bytes(8) of a payment ID xored with 8 bytes: it raises
\* OverflowError unless the value fits 8 bytes.
FitsEightBytes(payment_id) ==
    \A k \in DOMAIN payment_id : k > 8 => payment_id[k] = 0

\* crypto.get_payment_IDs(shared_keys, payment_IDs): none on a subaddress
\* variant; on a payment ID variant each candidate decrypted under each
\* shared key.
GetPaymentIDs(variant, shared_keys, payment_IDs) ==
    IF variant = "subaddress" THEN [err |-> "none", payment_IDs |-> {}]
    ELSE IF shared_keys # {} /\ \E id \in payment_IDs : ~FitsEightBytes(id)
    THEN [err |-> "OverflowError", payment_IDs |-> {}]
    ELSE [err |-> "none",
          payment_IDs |-> {[payment_id |-> Slice(id, 0, 8), key |-> k] :
                              id \in payment_IDs, k \in shared_keys}]

\* WatchWallet.can_spend(tx): the shared keys of all Rs, then the payment
\* IDs, then the outputs; an exception of a step leaves can_spend.
CanSpendParsed(variant, w, registry, tx, rev) ==
    LET Rs == SeqRange(tx.extra)
        shared_keys == {CreateSharedKey(PrivateViewKey(w), R) : R \in Rs}
        ids == GetPaymentIDs(variant, shared_keys, tx.payment_IDs)
    IN  IF \E R \in Rs : DecodePointRaises(R)
        THEN [err |-> "Exception", payment_IDs |-> {}, result |-> {}]
        ELSE IF ids.err # "none"
        THEN [err |-> ids.err, payment_IDs |-> {}, result |-> {}]
        ELSE [err |-> "none", payment_IDs |-> ids.payment_IDs,
              result |-> CanSpendBuilt(w, registry, tx, rev)]

\* The payment ID candidates an extra can yield: 8 bytes, 32 bytes, 32
\* bytes of which the last 24 are zero, and none at all.
PaymentIDCandidates ==
    {Bytes(8, 51), Bytes(32, 68), Bytes(8, 51) \o Bytes(24, 0), <<>>}

\* What may have been done to the output at a position: nothing, another
\* encrypted amount, another commitment.
Tamperings == {"none", "amount", "commitment"}

\* The transactions received: built for up to one address of A and the
\* change to B, then changed as the case says.
ReceivedCases ==
    [op : {"received"},
     err : {"none"},
     variant : Variants,
     dests : SeqsUpTo({d \in Destinations : d.w = "A" /\ d.idx[2] < 2}, 1),
     p : Permutations(1..1) \cup Permutations(1..2),
     rev : BOOLEAN,
     off_curve : BOOLEAN,
     unrelated : 0..MaxUnrelated,
     payment_IDs : SUBSET PaymentIDCandidates,
     tamper : Tamperings,
     at : 0..1,
     result : {{}}]

\* The output with the tampering applied.
Tampered(output, tamper) ==
    IF tamper = "amount"
    THEN [output EXCEPT !.amount.amount = @ + 1000]
    ELSE IF tamper = "commitment"
    THEN [output EXCEPT !.commitment.amount = @ + 1000]
    ELSE output

\* The transaction of the case as the scanner receives it.
ReceivedTransaction(c) ==
    LET tx == CaseTransaction(c, 0, c.unrelated)
    IN  [outputs |-> [i \in DOMAIN tx.outputs |->
                         IF i = c.at + 1 THEN Tampered(tx.outputs[i], c.tamper)
                         ELSE tx.outputs[i]],
         extra |-> (IF c.off_curve THEN <<OffCurve>> ELSE <<>>) \o tx.extra,
         payment_IDs |-> c.payment_IDs]

\* The registry of A: a payment ID variant has the root spend key only.
ReceivedRegistry(c) ==
    Registry("A", -1, IF c.variant = "subaddress" THEN {<<0, 1>>} ELSE {})

\* can_spend of A on the transaction of the case; what it reports is
\* merged into the map of A.
LookAtReceived ==
    LET out == CanSpendParsed(ret.variant, "A", ReceivedRegistry(ret),
                              ReceivedTransaction(ret), ret.rev)
        order == SortedSeq({r.o : r \in out.result})
        found == [i \in DOMAIN order |->
                     LET r == CHOOSE x \in out.result : x.o = order[i]
                     IN  [index |-> FlowIndex(r.o), timelock |-> 0,
                          amount |-> r.amount, spend_key |-> r.subaddress,
                          state |-> Spendable]]
    IN  /\ ret.op = "received"
        /\ inputs' = Merge(inputs, found)
        /\ ret' = [ret EXCEPT !.op = "looked", !.err = out.err,
                              !.result = out.result]
        /\ UNCHANGED <<nodeVars, last_block, confirmation_queue,
                       unique_factors, contexts, budget, calls, polled>>

InitReceived ==
    /\ height = 1
    /\ spent_images = {}
    /\ last_block = 0
    /\ confirmation_queue = <<>>
    /\ inputs = <<>>
    /\ unique_factors = {<<0, 0>>}
    /\ contexts = <<>>
    /\ budget = [external |-> 0, pollfail |-> 0, override |-> 0]
    /\ calls = [t \in Threads |-> IdleCall]
    /\ polled = {}
    /\ ret \in {c \in ReceivedCases :
                   /\ DOMAIN c.p = 1..(Len(c.dests) + 1)
                   /\ c.at < Len(c.dests) + 1
                   /\ c.variant = "payment_id" =>
                          \A i \in DOMAIN c.dests : c.dests[i].idx = <<0, 0>>}

NextReceived == LookAtReceived

SpecReceived == InitReceived /\ [][NextReceived]_vars

\* C22: can_spend returns for every transaction, whatever Rs and payment
\* ID candidates its extra yielded; an R that is no point of the curve and
\* a payment ID candidate of 8 or 32 bytes do not make it raise.
C22_CanSpendNeverRaises ==
    ret.op = "looked" => ret.err = "none"

\* The output at position o pays a key of the registry of A, but its
\* commitment is not the one rebuilt from the amount key and the amount
\* decrypted with it.
TamperedOwnOutput(c, o) ==
    LET output == ReceivedTransaction(c).outputs[o + 1]
    IN  /\ \E e \in ReceivedRegistry(c) : e.key = output.key.spend_key
        /\ output.commitment
               # [amount_key |-> output.key.amount_key,
                  amount |-> output.amount.amount]

\* C28: an output whose recovered spend key is registered but whose
\* commitment differs from the one rebuilt from the amount key is not
\* reported by can_spend and does not enter the input map.
C28_TamperedOutputRejected ==
    ret.op = "looked" =>
        \A o \in 0..Len(ret.dests) :
            TamperedOwnOutput(ret, o) =>
                /\ \A r \in ret.result : r.o # o
                /\ \A i \in DOMAIN inputs : inputs[i].index # FlowIndex(o)

\* can_spend returned; the output of A carried another encrypted amount
\* and was left out.
C28_TamperedAmountLeftOut ==
    /\ ret.op = "looked"
    /\ ret.err = "none"
    /\ ret.tamper = "amount"
    /\ Len(ret.dests) = 1
    /\ TamperedOwnOutput(ret, ret.at)
    /\ ret.result = {}
    /\ inputs = <<>>

(***************************************************************************)
(* Addresses (Address.__init__, Address.parse).  A text is a sequence of   *)
(* characters, a character the place it has in BASE58 and 58 for one that  *)
(* is not in it.  The integers of a block are longer than a machine word:  *)
(* they are kept as digit strings and divided digit by digit.              *)
(***************************************************************************)
\* digits (most significant first, in the given base) divided by d, from
\* digit k on with remainder rem: the quotient and the remainder.
RECURSIVE LongDivFrom(_, _, _, _, _)
LongDivFrom(digits, base, d, k, rem) ==
    IF k > Len(digits) THEN [q |-> <<>>, r |-> rem]
    ELSE LET cur == rem * base + digits[k]
             rest == LongDivFrom(digits, base, d, k + 1, cur % d)
         IN  [q |-> <<cur \div d>> \o rest.q, r |-> rest.r]

\* while blockInt > 0: blockInt % d, blockInt // d: the digits of the
\* integer in base d, least significant first.
RECURSIVE DigitsLittle(_, _, _)
DigitsLittle(digits, base, d) ==
    IF \A k \in DOMAIN digits : digits[k] = 0 THEN <<>>
    ELSE LET dm == LongDivFrom(digits, base, d, 1, 0)
         IN  <<dm.r>> \o DigitsLittle(dm.q, base, d)

\* The Base58 text of a block of bytes, padded for blocks of 8 and of 5.
EncodeBlock(block) ==
    LET blockStr == DigitsLittle(block, 256, 58)
        width == IF Len(block) = 8 THEN 11
                 ELSE IF Len(block) = 5 THEN 7 ELSE Len(blockStr)
    IN  Reversed(blockStr \o [k \in 1..(width - Len(blockStr)) |-> 0])

\* The bytes of a block of text: to_bytes(8) for 11 characters, to_bytes(5)
\* for 7, nothing else; to_bytes raises OverflowError when the integer
\* does not fit.
DecodeBlock(blockStr) ==
    LET length == IF Len(blockStr) = 11 THEN 8
                  ELSE IF Len(blockStr) = 7 THEN 5 ELSE 0
        little == DigitsLittle(blockStr, 58, 256)
    IN  IF length = 0 THEN [err |-> "none", data |-> <<>>]
        ELSE IF Len(little) > length
        THEN [err |-> "OverflowError", data |-> <<>>]
        ELSE [err |-> "none",
              data |-> Reversed(little
                           \o [k \in 1..(length - Len(little)) |-> 0])]

\* s[0:n], s[n:2n], ...
RECURSIVE Blocks(_, _)
Blocks(s, n) ==
    IF s = <<>> THEN <<>>
    ELSE <<Slice(s, 0, n)>> \o Blocks(Slice(s, n, Len(s)), n)

\* The first 4 bytes of the hash of data.  Keccak is not computed: the
\* bytes stand for it, a function of data.
Checksum(data) ==
    LET blocks == Blocks(data, 8)
        sums == [b \in DOMAIN blocks |-> SumSeq(blocks[b])]
        total == SumSeq(sums)
        weighted == SumSeq([b \in DOMAIN sums |-> b * sums[b]])
    IN  <<total % 256, (total \div 256) % 256, weighted % 256,
          (weighted \div 256) % 256>>

\* The payload with its checksum as Base58 text.
EncodeData(data) ==
    Concat([b \in DOMAIN Blocks(data \o Checksum(data), 8) |->
               EncodeBlock(Blocks(data \o Checksum(data), 8)[b])])

\* The variants: their network bytes (standard, integrated, subaddress),
\* the lengths of their address texts and payment IDs, and where the
\* payment ID goes.
MoneroCrypto ==
    [name |-> "MoneroCrypto", network_bytes |-> <<<<18>>, <<19>>, <<42>>>>,
     address_length |-> 95, integrated_address_length |-> 106,
     payment_id_lengths |-> {8}, network_byte_length |-> 1,
     payment_id_leading |-> FALSE]

MoneroPaymentIDCrypto ==
    [MoneroCrypto EXCEPT !.name = "MoneroPaymentIDCrypto"]

TurtlecoinCrypto ==
    [name |-> "TurtlecoinCrypto",
     network_bytes |-> <<<<157, 246, 238, 1>>, <<157, 246, 238, 1>>>>,
     address_length |-> 99, integrated_address_length |-> 187,
     payment_id_lengths |-> {64}, network_byte_length |-> 4,
     payment_id_leading |-> TRUE]

Cryptos == {MoneroCrypto, MoneroPaymentIDCrypto, TurtlecoinCrypto}

\* None, where a byte string may stand.
None == <<256>>

\* address_regex or integrated_address_regex matches the text.
RegexMatches(crypto, address) ==
    /\ Len(address) \in {crypto.address_length,
                         crypto.integrated_address_length}
    /\ \A k \in DOMAIN address : address[k] < 58

NoAddress ==
    [err |-> "none", network |-> <<>>, view_key |-> <<>>, spend_key |-> <<>>,
     payment_id |-> None, address |-> <<>>]

\* Address(crypto, key_pair, payment_id, network_byte, address): with an
\* address it is kept as it is; without, it is encoded.
AddressInit(crypto, key_pair, payment_id, network_byte, address) ==
    LET default ==
            IF payment_id # None THEN crypto.network_bytes[2]
            ELSE IF Len(crypto.network_bytes) = 3 THEN crypto.network_bytes[3]
            ELSE crypto.network_bytes[1]
        network == IF network_byte # None THEN network_byte ELSE default
        leading == IF payment_id # None /\ crypto.payment_id_leading
                   THEN payment_id ELSE <<>>
        trailing == IF payment_id # None /\ ~crypto.payment_id_leading
                    THEN payment_id ELSE <<>>
        data == network \o leading \o key_pair[2] \o key_pair[1] \o trailing
        made == [err |-> "none", network |-> network,
                 view_key |-> key_pair[1], spend_key |-> key_pair[2],
                 payment_id |-> payment_id, address |-> address]
    IN  IF Len(crypto.network_bytes) \notin {2, 3}
            \/ Len(key_pair[1]) # KeyBytes \/ Len(key_pair[2]) # KeyBytes
            \/ (payment_id # None
                  /\ Len(payment_id) \notin crypto.payment_id_lengths)
        THEN [NoAddress EXCEPT !.err = "Exception"]
        ELSE IF address # None
        THEN IF network_byte = None \/ ~RegexMatches(crypto, address)
             THEN [NoAddress EXCEPT !.err = "Exception"]
             ELSE made
        ELSE IF network_byte # None
                   /\ network_byte \notin SeqRange(crypto.network_bytes)
        THEN [NoAddress EXCEPT !.err = "Exception"]
        ELSE [made EXCEPT !.address = EncodeData(data)]

\* Address.parse(crypto, address).
AddressParse(crypto, address) ==
    LET blocks == Blocks(address, 11)
        decoded == [b \in DOMAIN blocks |-> DecodeBlock(blocks[b])]
        data == Concat([b \in DOMAIN blocks |-> decoded[b].data])
        n == crypto.network_byte_length
        sliced == IF crypto.payment_id_leading
                  THEN Slice(data, n, Len(data) - 68)
                  ELSE Slice(data, n + 64, Len(data) - 4)
        payment_id == IF sliced = <<>> THEN None ELSE sliced
        checksum == Slice(data, Len(data) - 4, Len(data))
        network_byte == Slice(data, 0, n)
        view_key == IF crypto.payment_id_leading
                    THEN Slice(data, Len(data) - 36, Len(data) - 4)
                    ELSE Slice(data, n + 32, n + 64)
        spend_key == IF crypto.payment_id_leading
                     THEN Slice(data, Len(data) - 68, Len(data) - 36)
                     ELSE Slice(data, n, n + 32)
    IN  IF ~RegexMatches(crypto, address)
        THEN [NoAddress EXCEPT !.err = "AddressError"]
        ELSE IF \E b \in DOMAIN blocks : decoded[b].err # "none"
        THEN [NoAddress EXCEPT !.err = "OverflowError"]
        ELSE IF Checksum(Slice(data, 0, Len(data) - 4)) # checksum
        THEN [NoAddress EXCEPT !.err = "AddressError"]
        ELSE IF network_byte \notin SeqRange(crypto.network_bytes)
                   \/ (payment_id # None
                         /\ network_byte # crypto.network_bytes[2])
        THEN [NoAddress EXCEPT !.err = "AddressError"]
        ELSE AddressInit(crypto, <<view_key, spend_key>>, payment_id,
                         network_byte, address)

\* The key pairs (view key, spend key) addresses are made of.
KeyPairs ==
    {<<Bytes(KeyBytes, 17), Bytes(KeyBytes, 34)>>,
     <<Bytes(KeyBytes, 0), Bytes(KeyBytes, 255)>>}

\* The payment IDs given to the constructor: none, one of the length the
\* variant allows, one of another length.
PaymentIDs(crypto) ==
    {None, Bytes(3, 51)}
        \cup {Bytes(n, 51) : n \in crypto.payment_id_lengths}

\* The network bytes given to it: none, those of the variant, another.
NetworkBytes(crypto) ==
    {None, Bytes(crypto.network_byte_length, 7)}
        \cup SeqRange(crypto.network_bytes)

\* The calls of the constructor.
AddressArguments ==
    {[op |-> "arguments", err |-> "none", crypto |-> crypto,
      key_pair |-> key_pair, payment_id |-> payment_id,
      network_byte |-> network_byte, made |-> NoAddress,
      text |-> <<>>, garbled |-> FALSE, result |-> NoAddress] :
        crypto \in Cryptos, key_pair \in KeyPairs,
        payment_id \in UNION {PaymentIDs(c) : c \in Cryptos},
        network_byte \in UNION {NetworkBytes(c) : c \in Cryptos}}

\* Texts that come from elsewhere: the encoding of a payload, with a tag of
\* the variant or another, with and without a payment ID.
ForeignTexts ==
    {[op |-> "text", err |-> "none", crypto |-> crypto,
      key_pair |-> key_pair, payment_id |-> payment_id,
      network_byte |-> network_byte, made |-> NoAddress,
      text |-> EncodeData(
                  network_byte
                      \o (IF crypto.payment_id_leading /\ payment_id # None
                          THEN payment_id ELSE <<>>)
                      \o key_pair[2] \o key_pair[1]
                      \o (IF ~crypto.payment_id_leading /\ payment_id # None
                          THEN payment_id ELSE <<>>)),
      garbled |-> FALSE, result |-> NoAddress] :
        crypto \in Cryptos,
        key_pair \in {<<Bytes(KeyBytes, 17), Bytes(KeyBytes, 34)>>},
        payment_id \in UNION {PaymentIDs(c) \ {Bytes(3, 51)} : c \in Cryptos},
        network_byte \in UNION {NetworkBytes(c) \ {None} : c \in Cryptos}}

\* Address(crypto, key_pair, payment_id, network_byte).
NewAddressText ==
    LET made == AddressInit(ret.crypto, ret.key_pair, ret.payment_id,
                            ret.network_byte, None)
    IN  /\ ret.op = "arguments"
        /\ ret' = [ret EXCEPT !.op = "generated", !.err = made.err,
                              !.made = made, !.text = made.address]
        /\ UNCHANGED <<nodeVars, walletVars, contexts, budget, calls, polled>>

\* The text is changed once on its way: a character replaced, the last
\* character lost, a character added.
Garble(at, char) ==
    /\ ret.op \in {"generated", "text"}
    /\ ret.err = "none"
    /\ ~ret.garbled
    /\ at \in DOMAIN ret.text \cup {0, Len(ret.text) + 1}
    /\ IF at \in DOMAIN ret.text THEN ret.text[at] # char ELSE TRUE
    /\ ret' = [ret EXCEPT
                  !.op = "text", !.garbled = TRUE,
                  !.text = IF at = 0 THEN Slice(ret.text, 0, Len(ret.text) - 1)
                           ELSE IF at = Len(ret.text) + 1
                           THEN Append(ret.text, char)
                           ELSE [ret.text EXCEPT ![at] = char]]
    /\ UNCHANGED <<nodeVars, walletVars, contexts, budget, calls, polled>>

\* Address.parse(crypto, text).
ParseAddress ==
    LET parsed == AddressParse(ret.crypto, ret.text)
    IN  /\ ret.op \in {"generated", "text"}
        /\ ret.err = "none"
        /\ ret' = [ret EXCEPT !.op = "parsed", !.err = parsed.err,
                              !.result = parsed]
        /\ UNCHANGED <<nodeVars, walletVars, contexts, budget, calls, polled>>

InitAddress ==
    /\ height = 1
    /\ spent_images = {}
    /\ last_block = 0
    /\ confirmation_queue = <<>>
    /\ inputs = <<>>
    /\ unique_factors = {<<0, 0>>}
    /\ contexts = <<>>
    /\ budget = [external |-> 0, pollfail |-> 0, override |-> 0]
    /\ calls = [t \in Threads |-> IdleCall]
    /\ polled = {}
    /\ ret \in {c \in AddressArguments \cup ForeignTexts :
                   /\ c.payment_id \in PaymentIDs(c.crypto)
                   /\ c.network_byte \in NetworkBytes(c.crypto)}

\* The places a text is changed at (0: the end is cut off; behind the
\* end: a character is added) and the characters put there: "1", "z" and
\* one that is not in BASE58.
GarbledPlaces(text) == {0, 1, 12, Len(text) - 6, Len(text), Len(text) + 1}

GarbledCharacters == {0, 57, 58}

NextAddress ==
    \/ NewAddressText
    \/ \E at \in GarbledPlaces(ret.text), char \in GarbledCharacters :
          Garble(at, char)
    \/ ParseAddress

SpecAddress == InitAddress /\ [][NextAddress]_vars

\* C23: Address.parse returns an Address or raises AddressError, nothing
\* else, whatever the text: a block of text whose value does not fit its
\* bytes, a wrong checksum, a tag that is not of the variant and a payment
\* ID under another tag than the integrated one are AddressErrors.
C23_ParseRaisesAddressErrorOnly ==
    ret.op = "parsed" =>
        /\ ret.err \in {"none", "AddressError"}
        /\ ret.err = "none" =>
               /\ ret.result.network \in SeqRange(ret.crypto.network_bytes)
               /\ ret.result.payment_id # None =>
                      ret.result.network = ret.crypto.network_bytes[2]

\* C24: the text of an address made by the constructor from a tag of the
\* variant, two keys of 32 bytes and no payment ID or one of an allowed
\* length parses to an Address with the same tag, keys, payment ID and
\* text.
C24_GeneratedAddressParsesBack ==
    (ret.op = "parsed" /\ ~ret.garbled /\ ret.made.err = "none"
         /\ ret.made.address # <<>>) =>
        ret.result = ret.made

(***************************************************************************)
(* Var ints written and read back (var_int_test.py): an integer is         *)
(* encoded in one of the two schemes, bytes are put before and after it,   *)
(* and it is decoded at the cursor where it starts.                        *)
(***************************************************************************)
\* The integers: 0 .. 2^16, and 2^35 - 1.
VarIntNumbers ==
    {Bits(n) : n \in 0..MaxVarInt} \cup {[k \in 1..35 |-> 1]}

\* The bytes put before and after the var int.
Paddings == {<<>>, <<255, 128>>}

Schemes == {"var_int", "rpc_var_int"}

\* to_var_int(n) or to_rpc_var_int(n), between the paddings.
EncodeVarInt ==
    LET encoded == IF ret.scheme = "var_int"
                   THEN [err |-> "none", bytes |-> ToVarInt(ret.n)]
                   ELSE ToRpcVarInt(ret.n)
    IN  /\ ret.op = "number"
        /\ ret' = [ret EXCEPT
                      !.op = "encoded", !.err = encoded.err,
                      !.length = Len(encoded.bytes),
                      !.bytes = ret.before \o encoded.bytes \o ret.after]
        /\ UNCHANGED <<nodeVars, walletVars, contexts, budget, calls, polled>>

\* from_var_int(bytes, before) or from_rpc_var_int(bytes, before).
DecodeVarInt ==
    LET decoded == IF ret.scheme = "var_int"
                   THEN FromVarIntBits(ret.bytes, Len(ret.before))
                   ELSE FromRpcVarInt(ret.bytes, Len(ret.before))
    IN  /\ ret.op = "encoded"
        /\ ret.err = "none"
        /\ ret' = [ret EXCEPT !.op = "decoded", !.err = decoded.err,
                              !.result = decoded]
        /\ UNCHANGED <<nodeVars, walletVars, contexts, budget, calls, polled>>

InitVarInt ==
    /\ height = 1
    /\ spent_images = {}
    /\ last_block = 0
    /\ confirmation_queue = <<>>
    /\ inputs = <<>>
    /\ unique_factors = {<<0, 0>>}
    /\ contexts = <<>>
    /\ budget = [external |-> 0, pollfail |-> 0, override |-> 0]
    /\ calls = [t \in Threads |-> IdleCall]
    /\ polled = {}
    /\ ret \in [op : {"number"}, err : {"none"}, scheme : Schemes,
                n : VarIntNumbers, before : Paddings, after : Paddings,
                length : {0}, bytes : {<<>>},
                result : {[err |-> "none", value |-> <<>>, cursor |-> 0]}]

NextVarInt == EncodeVarInt \/ DecodeVarInt

SpecVarInt == InitVarInt /\ [][NextVarInt]_vars

\* C25: in both schemes, decoding at the cursor where the encoding of n
\* starts returns n and the cursor behind the encoding, whatever bytes
\* stand before and after it, for every n in 0 .. 2^16 and for 2^35 - 1.
C25_VarIntsReadBack ==
    /\ ret.op = "encoded" => ret.err = "none"
    /\ ret.op = "decoded" =>
          /\ ret.err = "none"
          /\ ret.result.value = ret.n
          /\ ret.result.cursor = Len(ret.before) + ret.length

\* 2^35 - 1 was read back between other bytes in both schemes: 5 bytes
\* in the one, 8 in the other.
C25_LargestReadBackPadded ==
    /\ ret.op = "decoded"
    /\ Len(ret.n) = 35
    /\ ret.before # <<>>
    /\ ret.after # <<>>
    /\ ret.length = IF ret.scheme = "var_int" THEN 5 ELSE 8
    /\ ret.result.value = ret.n

(***************************************************************************)
(* The rings of a context (prepare_send): for every selected input the     *)
(* sorted mixins, the place of the input's own index among them and what   *)
(* the node reports for each of them.                                      *)
(***************************************************************************)
\* rpc.get_outs(index): the key and the commitment of the output with that
\* global index.
GetOuts(index) == [key |-> <<"key", index>>, mask |-> <<"mask", index>>]

\* list.index(x): the first place of x, counted from 0.
ListIndex(list, x) == Min({k \in DOMAIN list : list[k] = x}) - 1

\* context["inputs"], context["mixins"] and context["ring"] of the context
\* prepare_send returns for the selection sel.
ContextRings(sel) ==
    [inputs |-> [i \in DOMAIN sel |->
                    [index |-> sel[i].index,
                     mixin_index |-> ListIndex(sel[i].mixins,
                                               GlobalIndex(sel[i].index))]],
     mixins |-> [i \in DOMAIN sel |-> sel[i].mixins],
     ring |-> [i \in DOMAIN sel |->
                  [m \in DOMAIN sel[i].mixins |-> GetOuts(sel[i].mixins[m])]]]

\* The context of prepare_send(dest, r.amount, r.fee) called in this state
\* with the draws starting at draw is as C26 says.
RingsWellFormed(r, draw) ==
    LET out == PrepareOutcome(inputs, height, r.amount, r.fee,
                              r.minimum_input, NoFail, draw)
        context == ContextRings(out.sel)
    IN  out.err = "none" =>
            \A i \in DOMAIN context.inputs :
                LET mixins == context.mixins[i]
                    actual == GlobalIndex(context.inputs[i].index)
                    at == context.inputs[i].mixin_index + 1
                IN  /\ Len(mixins) = RequiredMixins
                    /\ \A k \in 1..(Len(mixins) - 1) : mixins[k] < mixins[k + 1]
                    /\ at \in DOMAIN mixins
                    /\ mixins[at] = actual
                    /\ \A k \in DOMAIN mixins \ {at} :
                          /\ mixins[k] >= OldestTxo
                          /\ mixins[k] <= NewestTxo(height - MinerLock)
                    /\ Len(context.ring[i]) = Len(mixins)
                    /\ \A k \in DOMAIN mixins :
                          context.ring[i][k] = GetOuts(mixins[k])

\* The values the random source starts from when the rings are looked at:
\* enough of them for a draw to fall on every index of the sampling range.
RingDraws == 0..MaxDraw

\* C26: in every context prepare_send returns, the mixins of each selected
\* input are required_mixins distinct global indices in ascending order,
\* the input's own index stands at mixin_index, every other index lies
\* between oldest_txo and the newest unlocked output, and ring holds what
\* the node reports for each index.
C26_RingsSortedDistinctInRange ==
    \A r \in Requests, draw \in RingDraws : RingsWellFormed(r, draw)

\* prepare_send returns a context in which the first draw made for the
\* first input hits the index of that input itself and is drawn again.
C26_OwnIndexDrawnAndRejected ==
    \E r \in Requests, draw \in RingDraws :
        LET out == PrepareOutcome(inputs, height, r.amount, r.fee,
                                  r.minimum_input, NoFail, draw)
        IN  /\ out.err = "none"
            /\ GlobalIndex(out.sel[1].index)
                   = OldestTxo + (draw % MixinsAvailable(height))

(***************************************************************************)
(* Wallet.sign on the inputs of a context: the rings and mixins of the     *)
(* context are embedded into the inputs, MoneroCrypto.sign generates the   *)
(* key images, sorts the inputs by them and hands the signing function the *)
(* prefix hash and the lists it extracts from the sorted inputs.           *)
(***************************************************************************)
SignInputs == 1..MaxSignInputs

\* The key images generate_key_image may give, as byte strings.
ImageValues == {<<0, 255>>, <<1, 0>>, <<1, 2>>, <<255, 0>>}

\* The assignments of distinct key images to the inputs 1..n.
ImageChoices(n) ==
    {f \in [1..n -> ImageValues] : \A a, b \in 1..n : a # b => f[a] # f[b]}

\* The global index of the output input k spends.
ActualOf(k) == 10 * k

\* The sorted mixins of input k when its own index is at rank.
MixinsOf(k, rank) ==
    [m \in 1..RequiredMixins |-> ActualOf(k) + 3 * (m - 1 - rank)]

\* context["inputs"][k - 1] as prepare_send leaves it.
InputJson(k, rank) ==
    [hash |-> <<"tx", k>>, index |-> k % 2, mixin_index |-> rank,
     amount |-> 1000 * k, subaddress |-> <<0, k % 2>>,
     amount_key |-> <<"amount_key", k>>, commitment |-> <<"commitment", k>>]

\* The context of n inputs whose own indices are at ranks[k].
SignContext(n, ranks) ==
    [inputs |-> [k \in 1..n |-> InputJson(k, ranks[k])],
     mixins |-> [k \in 1..n |-> MixinsOf(k, ranks[k])],
     ring |-> [k \in 1..n |->
                  [m \in 1..RequiredMixins |->
                      GetOuts(MixinsOf(k, ranks[k])[m])]]]

\* The lines of Wallet.sign that load the inputs: output_from_json, then
\* index.index is replaced by mixin_index.
ExtractInputs(context) ==
    [i \in DOMAIN context.inputs |->
        LET input_i == context.inputs[i]
        IN  [index |-> [tx_hash |-> input_i.hash, index |-> input_i.mixin_index],
             amount |-> input_i.amount, subaddress |-> input_i.subaddress,
             amount_key |-> input_i.amount_key,
             commitment |-> input_i.commitment,
             mixins |-> <<>>, ring |-> <<>>, image |-> <<>>]]

\* The delta encoding of a list of mixins, from its k-th entry on.
RECURSIVE Offsets(_, _, _)
Offsets(mixins, k, index_sum) ==
    IF k > Len(mixins) THEN <<>>
    ELSE <<mixins[k] - index_sum>>
             \o Offsets(mixins, k + 1, index_sum + (mixins[k] - index_sum))

\* spendable_transaction: mixins[i] and ring[i] are embedded into inputs[i].
EmbedRings(ins, mixins, ring) ==
    [i \in DOMAIN ins |->
        [ins[i] EXCEPT !.mixins = Offsets(mixins[i], 1, 0), !.ring = ring[i]]]

\* generate_input_key: the amount key plus the private spend key of the
\* subaddress.
GenerateInputKey(input) == <<"input_key", input.amount_key, input.subaddress>>

\* a < b for byte strings, as Python compares them.
RECURSIVE BytesLess(_, _)
BytesLess(a, b) ==
    IF b = <<>> THEN FALSE
    ELSE IF a = <<>> THEN TRUE
    ELSE IF Head(a) # Head(b) THEN Head(a) < Head(b)
    ELSE BytesLess(Tail(a), Tail(b))

\* A variant of the sort that leaves the inputs where they are.
SortByImageLeavingOrder(ins) == ins

RECURSIVE InsertByImage(_, _)
InsertByImage(sorted, x) ==
    IF sorted = <<>> THEN <<x>>
    ELSE IF BytesLess(Head(sorted).image, x.image) THEN <<x>> \o sorted
    ELSE <<Head(sorted)>> \o InsertByImage(Tail(sorted), x)

RECURSIVE SortFrom(_, _, _)
SortFrom(ins, k, sorted) ==
    IF k > Len(ins) THEN sorted
    ELSE SortFrom(ins, k + 1, InsertByImage(sorted, ins[k]))

\* tx.inputs.sort(key=lambda i: i.image, reverse=True): stable, descending.
SortByImage(ins) == SortFrom(ins, 1, <<>>)

\* The part of the prefix serialize() writes for the inputs.
SerializeInputs(ins) ==
    ToVarInt(Bits(Len(ins)))
        \o Concat([i \in DOMAIN ins |->
                      <<2, 0>> \o ToVarInt(Bits(Len(ins[i].mixins)))
                          \o Concat([m \in DOMAIN ins[i].mixins |->
                                        ToVarInt(Bits(ins[i].mixins[m]))])
                          \o ins[i].image])

\* serialize()[0] of a transaction not yet signed: the hash of the prefix.
PrefixHash(ins, outputs_and_extra) ==
    <<"H", <<2, 0>> \o SerializeInputs(ins) \o outputs_and_extra>>

\* What serialize() writes after the inputs: outputs and extra do not
\* depend on the inputs.
OutputsAndExtra == <<2, 0, 2, 11, 0, 2, 12, 1, 9>>

\* MoneroCrypto.sign: the sorted inputs and what is handed to
\* generate_ringct_signatures.
CryptoSign(ins, images) ==
    LET with_images == [i \in DOMAIN ins |-> [ins[i] EXCEPT !.image = images[i]]]
        sorted == SortByImage(with_images)
    IN  [inputs |-> sorted,
         prefix_hash |-> PrefixHash(sorted, OutputsAndExtra),
         input_keys |-> [i \in DOMAIN sorted |->
                            <<GenerateInputKey(sorted[i]), sorted[i].commitment>>],
         input_amounts |-> [i \in DOMAIN sorted |-> sorted[i].amount],
         input_indexes |-> [i \in DOMAIN sorted |-> sorted[i].index.index],
         ring |-> [i \in DOMAIN sorted |-> sorted[i].ring]]

NoSigned ==
    [inputs |-> <<>>, prefix_hash |-> <<>>, input_keys |-> <<>>,
     input_amounts |-> <<>>, input_indexes |-> <<>>, ring |-> <<>>]

\* Wallet.sign(context), as far as the inputs go.
SignContextInputs ==
    /\ ret.op = "inputs"
    /\ ret' = [ret EXCEPT
                 !.op = "signed",
                 !.signed = CryptoSign(
                     EmbedRings(ExtractInputs(ret.context),
                                ret.context.mixins, ret.context.ring),
                     ret.images)]
    /\ UNCHANGED <<nodeVars, walletVars, contexts, budget, calls, polled>>

InitSign ==
    /\ height = 1
    /\ spent_images = {}
    /\ last_block = 0
    /\ confirmation_queue = <<>>
    /\ inputs = <<>>
    /\ unique_factors = {<<0, 0>>}
    /\ contexts = <<>>
    /\ budget = [external |-> 0, pollfail |-> 0, override |-> 0]
    /\ calls = [t \in Threads |-> IdleCall]
    /\ polled = {}
    /\ \E n \in SignInputs :
          \E ranks \in [1..n -> 0..(RequiredMixins - 1)], images \in ImageChoices(n) :
              ret = [op |-> "inputs", err |-> "none",
                     context |-> SignContext(n, ranks), images |-> images,
                     signed |-> NoSigned]

NextSign == SignContextInputs

SpecSign == InitSign /\ [][NextSign]_vars

\* The place in the context of the input at place i of the signed
\* transaction (0: none, or more than one).
OriginOf(i) ==
    LET from == {k \in DOMAIN ret.context.inputs :
                     ret.context.inputs[k].hash = ret.signed.inputs[i].index.tx_hash}
    IN  IF Cardinality(from) = 1 THEN CHOOSE k \in from : TRUE ELSE 0

\* C27: after sign the inputs stand in descending order of their key
\* images; at every place the mixin offsets, the ring, the rank of the true
\* index, the amount, the commitment and the one-time private key are those
\* of one and the same input of the context, every input of the context
\* standing at exactly one place; and the prefix hash handed to the signing
\* function is the hash of the prefix with the inputs in that order.
C27_SignSortsInputsInLockstep ==
    ret.op = "signed" =>
        LET s == ret.signed
            c == ret.context
        IN  /\ Len(s.inputs) = Len(c.inputs)
            /\ \A i \in 1..(Len(s.inputs) - 1) :
                  BytesLess(s.inputs[i + 1].image, s.inputs[i].image)
            /\ \A i, j \in DOMAIN s.inputs : i # j => OriginOf(i) # OriginOf(j)
            /\ \A i \in DOMAIN s.inputs :
                  LET k == OriginOf(i)
                  IN  /\ k \in DOMAIN c.inputs
                      /\ s.inputs[i].image = ret.images[k]
                      /\ s.inputs[i].mixins = Offsets(c.mixins[k], 1, 0)
                      /\ s.inputs[i].ring = c.ring[k]
                      /\ s.ring[i] = c.ring[k]
                      /\ s.input_indexes[i] = c.inputs[k].mixin_index
                      /\ c.mixins[k][s.input_indexes[i] + 1] = ActualOf(k)
                      /\ s.input_amounts[i] = c.inputs[k].amount
                      /\ s.input_keys[i]
                            = <<(<<"input_key", c.inputs[k].amount_key,
                                   c.inputs[k].subaddress>>),
                                c.inputs[k].commitment>>
            /\ s.prefix_hash = PrefixHash(s.inputs, OutputsAndExtra)

\* sign has moved an input: three inputs, the last of the context first.
C27_LastInputSignedFirst ==
    /\ ret.op = "signed"
    /\ Len(ret.signed.inputs) = MaxSignInputs
    /\ OriginOf(1) = MaxSignInputs
    /\ OriginOf(MaxSignInputs) = 2
    /\ ret.signed.input_indexes[1] # ret.signed.input_indexes[2]

\* The owned outputs of the main address in the blocks that have left the
\* confirmation queue.
LeftQueueOwned ==
    {o \in Outs : /\ OutSub(o) = <<0, 0>>
                  /\ OutBlock(o) \in 1..last_block
                  /\ OutBlock(o) \notin SeqRange(confirmation_queue)}

\* C29: when poll_blocks has returned, also after calls that a node error
\* cut short while fetching or scanning, the wallet is where calls that
\* never failed leave it: no height stands twice in the queue, the queue
\* holds the last Confirmations heights up to last_block, and every owned
\* output of every block that has left the queue is in the input map.
C29_RetriedPollAsIfNeverFailed ==
    (ret.op = "poll_blocks" /\ ret.err = "none") =>
        /\ \A i, j \in DOMAIN confirmation_queue :
              i # j => confirmation_queue[i] # confirmation_queue[j]
        /\ confirmation_queue
              = Between(last_block - Min({Confirmations, last_block}),
                        last_block + 1)
        /\ LeftQueueOwned \subseteq Indices(inputs)

(***************************************************************************)
(* The mixin loop of prepare_send, one iteration a step: the check of the  *)
(* mixins available, the draws of the rejection-sampling loop of one       *)
(* input, the sort that ends it.  ret holds the position of the call.      *)
(***************************************************************************)
\* A check that lets every range through.
EnoughMixinsUnchecked(mixins_available, required_mixins) == TRUE

\* "if mixins_available < self.crypto.required_mixins: raise MixinError".
EnoughMixins(mixins_available, required_mixins) ==
    ~(mixins_available < required_mixins)

\* The values int.from_bytes(urandom(mixin_bytes)) may take.
Randoms == 0..MaxRandom

\* The places of the true index: below the sampling range, inside it, and
\* the newest output, just above it.
Actuals(mixins_available) ==
    (OldestTxo - 1)..(OldestTxo + mixins_available)

RingCalls ==
    {[op |-> "called", err |-> "none", required_mixins |-> required,
      mixins_available |-> available, actual |-> actual, ring |-> <<>>,
      new_mixin |-> -1, rejected |-> FALSE, mixin_index |-> -1] :
        required \in 1..MaxRingSize, available \in 0..MaxAvailable,
        actual \in Actuals(MaxAvailable)}

\* The check before the loop, then "context["mixins"].append([actual])".
CheckMixins ==
    /\ ret.op = "called"
    /\ ret' = IF EnoughMixins(ret.mixins_available, ret.required_mixins)
              THEN [ret EXCEPT !.op = "filling", !.ring = <<ret.actual>>]
              ELSE [ret EXCEPT !.op = "raised", !.err = "MixinError"]
    /\ UNCHANGED <<nodeVars, walletVars, contexts, budget, calls, polled>>

\* One iteration of the while loop with the random value drawn.
DrawMixin(random) ==
    /\ ret.op = "filling"
    /\ Len(ret.ring) # ret.required_mixins
    /\ ret.mixins_available > 0
    /\ LET new_mixin == OldestTxo + (random % ret.mixins_available)
       IN  ret' = IF \E k \in DOMAIN ret.ring : ret.ring[k] = new_mixin
                  THEN [ret EXCEPT !.new_mixin = new_mixin, !.rejected = TRUE]
                  ELSE [ret EXCEPT !.new_mixin = new_mixin,
                                   !.ring = Append(@, new_mixin)]
    /\ UNCHANGED <<nodeVars, walletVars, contexts, budget, calls, polled>>

\* An iteration that appends the index it drew.
DrawNewMixin ==
    \E random \in Randoms : DrawMixin(random) /\ ret'.ring # ret.ring

\* The loop has ended: sort, mixin_index.
SortMixins ==
    /\ ret.op = "filling"
    /\ Len(ret.ring) = ret.required_mixins
    /\ LET mixins == SortedSeq(SeqRange(ret.ring))
       IN  ret' = [ret EXCEPT !.op = "filled", !.ring = mixins,
                              !.mixin_index = ListIndex(mixins, ret.actual)]
    /\ UNCHANGED <<nodeVars, walletVars, contexts, budget, calls, polled>>

InitRing ==
    /\ height = 1
    /\ spent_images = {}
    /\ last_block = 0
    /\ confirmation_queue = <<>>
    /\ inputs = <<>>
    /\ unique_factors = {<<0, 0>>}
    /\ contexts = <<>>
    /\ budget = [external |-> 0, pollfail |-> 0, override |-> 0]
    /\ calls = [t \in Threads |-> IdleCall]
    /\ polled = {}
    /\ ret \in RingCalls

NextRing ==
    \/ CheckMixins
    \/ \E random \in Randoms : DrawMixin(random)
    \/ SortMixins

SpecRing == InitRing /\ [][NextRing]_vars

\* The statements of the call are executed one after the other, and the
\* random source is fair: an index that can still be appended is drawn
\* in the end.
SpecRingFair ==
    /\ SpecRing
    /\ WF_vars(CheckMixins)
    /\ WF_vars(DrawNewMixin)
    /\ WF_vars(SortMixins)

\* C30: a prepare_send whose range of mixins passes the check leaves the
\* rejection-sampling loop, wherever the true index lies, and one whose
\* range does not pass raises: the call ends.
C30_MixinLoopTerminates ==
    <>(\/ ret.op = "filled" /\ Len(ret.ring) = ret.required_mixins
       \/ ret.op = "raised" /\ ret.mixins_available < ret.required_mixins)

\* The loop has ended for a true index inside a range that is exactly
\* required_mixins wide, after a draw was rejected.
C30_FilledFromNarrowestRange ==
    /\ ret.op = "filled"
    /\ ret.mixins_available = ret.required_mixins
    /\ ret.required_mixins = MaxRingSize
    /\ ret.actual \in OldestTxo..(OldestTxo + ret.mixins_available - 1)
    /\ ret.rejected

=============================================================================
